---------------------------- MODULE Spec2Model ----------------------------
(***************************************************************************)
(* Model of METAHIT's reassembly driver, 7_reassembly/scripts/             *)
(* 7_reassembly.py: insert-size sampling, the two-component mixture fit    *)
(* (init_params, em_mix), the cutoff derivation, pair counting and the     *)
(* pipeline of main.                                                       *)
(*                                                                         *)
(* Numbers.  The program computes in IEEE doubles (numpy float64).  The    *)
(* model keeps the structure of that arithmetic -- NaN, the infinities,    *)
(* zero, underflow to zero, rounding after every operation -- at a reduced *)
(* precision of four significant decimal digits: a number is a record      *)
(*    [k |-> "fin", m |-> mantissa, e |-> exponent]   (value m * 10^e,     *)
(*                          m = 0 and e = 0, or 1000 <= |m| <= 9999)       *)
(*    [k |-> "inf", m |-> 1 or -1, e |-> 0]                                *)
(*    [k |-> "nan", m |-> 0, e |-> 0]                                      *)
(* Signed zeros are not distinguished.  Each operation is a function       *)
(* (FAddF, FMulF, ...) applied to the values of its operands.              *)
(***************************************************************************)
EXTENDS Integers, Sequences, FiniteSets, TLC

-----------------------------------------------------------------------------
(* Reduced-precision floating point *)

Pow10(i) == <<1, 10, 100, 1000, 10000, 100000, 1000000, 10000000,
              100000000, 1000000000>>[i + 1]

\* the values of the number model (None: Python's None, for logL)
Float == [k : {"fin", "inf", "nan", "none"}, m : Int, e : Int]

NaN == [k |-> "nan", m |-> 0, e |-> 0]

Inf(s) == [k |-> "inf", m |-> s, e |-> 0]

Zero == [k |-> "fin", m |-> 0, e |-> 0]

One == [k |-> "fin", m |-> 1000, e |-> -3]

IsNaN(a) == a.k = "nan"

IsFin(a) == a.k = "fin"

Abs(i) == IF i < 0 THEN -i ELSE i

Sgn(a) == IF a.m > 0 THEN 1 ELSE IF a.m < 0 THEN -1 ELSE 0

NumDigits(a) ==
    IF a < 10 THEN 1 ELSE IF a < 100 THEN 2 ELSE IF a < 1000 THEN 3
    ELSE IF a < 10000 THEN 4 ELSE IF a < 100000 THEN 5
    ELSE IF a < 1000000 THEN 6 ELSE IF a < 10000000 THEN 7
    ELSE IF a < 100000000 THEN 8 ELSE IF a < 1000000000 THEN 9 ELSE 10

\* s * a * 10^e rounded to four digits (half up); overflow beyond the
\* largest double (1.797e308) gives an infinity, underflow below the smallest
\* (4.9e-324) gives zero.
NormF[s \in Int, a \in Int, e \in Int] ==
    IF a = 0 \/ s = 0 THEN Zero
    ELSE LET d  == NumDigits(a)
             r  == IF d > 4 THEN (a + 5 * Pow10(d - 5)) \div Pow10(d - 4)
                   ELSE a * Pow10(4 - d)
             e1 == e + d - 4
             m2 == IF r = 10000 THEN 1000 ELSE r
             e2 == IF r = 10000 THEN e1 + 1 ELSE e1
         IN  IF e2 + 3 > 308 \/ (e2 + 3 = 308 /\ m2 > 1797) THEN Inf(s)
             ELSE IF e2 + 3 < -323 THEN Zero
             ELSE [k |-> "fin", m |-> s * m2, e |-> e2]

Norm(s, a, e) == NormF[s, a, e]

FromInt(i) == Norm(IF i < 0 THEN -1 ELSE 1, Abs(i), 0)

FNegF[a \in Float] == IF IsNaN(a) THEN NaN ELSE [a EXCEPT !.m = -a.m]

FNeg(a) == FNegF[a]

FAddF[a \in Float, b \in Float] ==
    IF IsNaN(a) \/ IsNaN(b) THEN NaN
    ELSE IF a.k = "inf" THEN (IF b.k = "inf" /\ b.m # a.m THEN NaN ELSE a)
    ELSE IF b.k = "inf" THEN b
    ELSE IF a.m = 0 THEN b
    ELSE IF b.m = 0 THEN a
    ELSE LET hi == IF a.e >= b.e THEN a ELSE b
             lo == IF a.e >= b.e THEN b ELSE a
             d  == hi.e - lo.e
         IN  IF d > 5 THEN hi
             ELSE LET sum == hi.m * Pow10(d) + lo.m
                  IN  Norm(IF sum < 0 THEN -1 ELSE 1, Abs(sum), lo.e)

FAdd(a, b) == FAddF[a, b]

FSub(a, b) == FAdd(a, FNeg(b))

FMulF[a \in Float, b \in Float] ==
    IF IsNaN(a) \/ IsNaN(b) THEN NaN
    ELSE IF a.k = "inf" \/ b.k = "inf"
         THEN (IF Sgn(a) * Sgn(b) = 0 THEN NaN ELSE Inf(Sgn(a) * Sgn(b)))
    ELSE Norm(Sgn(a) * Sgn(b), Abs(a.m) * Abs(b.m), a.e + b.e)

FMul(a, b) == FMulF[a, b]

\* numpy division: x/0 is an infinity, 0/0 is NaN (a warning, no exception).
FDivF[a \in Float, b \in Float] ==
    IF IsNaN(a) \/ IsNaN(b) THEN NaN
    ELSE IF a.k = "inf"
         THEN (IF b.k = "inf" THEN NaN
               ELSE Inf(IF Sgn(b) < 0 THEN -a.m ELSE a.m))
    ELSE IF b.k = "inf" THEN Zero
    ELSE IF b.m = 0 THEN (IF a.m = 0 THEN NaN ELSE Inf(Sgn(a)))
    ELSE Norm(Sgn(a) * Sgn(b), (Abs(a.m) * 100000) \div Abs(b.m),
              a.e - b.e - 5)

FDiv(a, b) == FDivF[a, b]

\* Comparisons: every comparison with NaN is false.
FLtF[a \in Float, b \in Float] ==
    IF IsNaN(a) \/ IsNaN(b) THEN FALSE
    ELSE IF a.k = "inf" THEN a.m < 0 /\ ~(b.k = "inf" /\ b.m < 0)
    ELSE IF b.k = "inf" THEN b.m > 0
    ELSE IF Sgn(a) # Sgn(b) THEN Sgn(a) < Sgn(b)
    ELSE IF Sgn(a) = 0 THEN FALSE
    ELSE IF Sgn(a) > 0 THEN a.e < b.e \/ (a.e = b.e /\ a.m < b.m)
    ELSE a.e > b.e \/ (a.e = b.e /\ a.m < b.m)

FLt(a, b) == FLtF[a, b]

FGt(a, b) == FLt(b, a)

FLeF[a \in Float, b \in Float] ==
    ~IsNaN(a) /\ ~IsNaN(b) /\ (a = b \/ FLt(a, b))

FLe(a, b) == FLeF[a, b]

FGe(a, b) == FLe(b, a)

FAbsF[a \in Float] == IF IsNaN(a) THEN NaN ELSE [a EXCEPT !.m = Abs(a.m)]

FAbs(a) == FAbsF[a]

FSqF[a \in Float] == FMul(a, a)

\* a ** 2
FSq(a) == FSqF[a]

\* the value of a singleton set: Only({e(v) : v \in {d}}) is e(d) with d
\* evaluated once
Only(S) == CHOOSE v \in S : TRUE

RECURSIVE ISqrtFrom(_, _)
ISqrtFrom(x, g) ==
    Only({IF h >= g THEN g ELSE ISqrtFrom(x, h) :
             h \in {(g + x \div g) \div 2}})

\* floor of the square root of a positive integer (Newton iteration)
ISqrt(x) == IF x = 0 THEN 0 ELSE ISqrtFrom(x, x)

FSqrtF[a \in Float] ==
    IF IsNaN(a) THEN NaN
    ELSE IF a.k = "inf" THEN (IF a.m > 0 THEN a ELSE NaN)
    ELSE IF a.m < 0 THEN NaN
    ELSE IF a.m = 0 THEN Zero
    ELSE LET odd == a.e % 2 = 1
             m2  == IF odd THEN a.m * 10 ELSE a.m
             e2  == IF odd THEN a.e - 1 ELSE a.e
         IN  Norm(1, ISqrt(m2 * 10000), (e2 - 4) \div 2)

FSqrt(a) == FSqrtF[a]

\* exp(-y) for y >= 0: 10^(-t) with t = y * log10(e), the fraction of t by a
\* table of 10^(-j/10) and a Taylor series.  exp(-y) underflows to zero
\* beyond y = 745.
FExpNegF[y \in Float] ==
    IF IsNaN(y) THEN NaN
    ELSE IF y.k = "inf" THEN (IF y.m > 0 THEN Zero ELSE Inf(1))
    ELSE IF y.m <= 0 THEN One
    ELSE IF y.e > -1 \/ (y.e = -1 /\ y.m >= 7500) THEN Zero
    ELSE LET Y4  == IF y.e >= -4 THEN y.m * Pow10(y.e + 4)
                    ELSE IF y.e < -9 THEN 0 ELSE y.m \div Pow10(-4 - y.e)
             T   == ((Y4 \div 10000) * 43429) \div 10
                    + ((Y4 % 10000) * 43429) \div 100000
             n   == T \div 10000
             F   == T % 10000
             tab == <<10000, 7943, 6310, 5012, 3981, 3162, 2512, 1995,
                      1585, 1259>>[(F \div 1000) + 1]
             u   == ((F % 1000) * 23026) \div 10000
             u2  == (u * u) \div 10000
             u3  == (u2 * u) \div 10000
             u4  == (u3 * u) \div 10000
             S   == 10000 - u + u2 \div 2 - u3 \div 6 + u4 \div 24
         IN  Norm(1, tab * S, -8 - n)

FExpNeg(y) == FExpNegF[y]

RECURSIVE Halve(_, _)
Halve(U, c) == IF U >= 20000 THEN Halve(U \div 2, c + 1) ELSE <<U, c>>

\* natural logarithm: log(0) = -inf, log of a negative number or NaN is NaN.
FLogF[a \in Float] ==
    IF IsNaN(a) THEN NaN
    ELSE IF a.k = "inf" THEN (IF a.m > 0 THEN a ELSE NaN)
    ELSE IF a.m < 0 THEN NaN
    ELSE IF a.m = 0 THEN Inf(-1)
    ELSE LET h   == Halve(a.m * 10, 0)
             U   == h[1]
             S   == ((U - 10000) * 10000) \div (U + 10000)
             S2  == (S * S) \div 10000
             S3  == (S * S2) \div 10000
             S5  == (S3 * S2) \div 10000
             S7  == (S5 * S2) \div 10000
             L   == 2 * (S + S3 \div 3 + S5 \div 5 + S7 \div 7)
             tot == L + h[2] * 6931 + (a.e + 3) * 23026
         IN  Norm(IF tot < 0 THEN -1 ELSE 1, Abs(tot), -4)

FLog(a) == FLogF[a]

\* Python's builtin max(a, b) and min(a, b): the first argument is kept
\* unless the second compares strictly greater (smaller), so a NaN first
\* argument is returned.
PyMaxF[a \in Float, b \in Float] == IF FGt(b, a) THEN b ELSE a

PyMax(a, b) == PyMaxF[a, b]

PyMinF[a \in Float, b \in Float] == IF FLt(b, a) THEN b ELSE a

PyMin(a, b) == PyMinF[a, b]

\* numpy.maximum: NaN propagates.
NpMaximumF[a \in Float, b \in Float] ==
    IF IsNaN(a) \/ IsNaN(b) THEN NaN ELSE IF FGt(b, a) THEN b ELSE a

NpMaximum(a, b) == NpMaximumF[a, b]

-----------------------------------------------------------------------------
(* Bounds of the model *)

\* longest sample enumerated exhaustively
MaxN == 3

\* em_mix's max_iter (the program's default is 100)
MaxIter == 6

\* values of the exhaustively enumerated samples (insert sizes, 0 < v < 5000)
Vals == {100, 300, 400, 500, 3000}

-----------------------------------------------------------------------------
(* State *)

VARIABLES
    pc,          \* position in the modelled run
    entry,       \* "main": a run of main; "call": the functions called alone
    insert_file, \* insert_size.txt: the values written, one per line
    data,        \* main: the array of insert sizes handed to the fit
    lower,       \* init_params: the non-chimeric group after the fallback
    upper,       \* init_params: the chimeric group after the fallback
    par,         \* main: mu_N, mu_C, sigma_N, sigma_C, pi_N, pi_C
    logL,        \* em_mix: log-likelihood of the previous iteration, or None
    new_logL,    \* em_mix: log-likelihood of the latest iteration
    hist,        \* em_mix: new_logL of every iteration so far (history)
    iteration,   \* em_mix: number of iterations run so far
    stop,        \* em_mix: how the loop ended ("none", "break", "cap", "empty")
    floored,     \* em_mix: the latest E-step replaced some total by 1e-10
    raised,      \* main: the cutoff computation raised an exception
    cutoff       \* main: the derived cutoff, or None

VARIABLES
    last_sum_gamma_C, \* em_mix: sum_gamma_C of the latest iteration
    last_sum_gamma_N, \* em_mix: sum_gamma_N of the latest iteration
    before            \* em_mix: the parameters before the latest iteration,
                      \* or the arguments of a call that ran no iteration
                      \* (history)

stepvars == <<last_sum_gamma_C, last_sum_gamma_N, before>>

fitvars == <<pc, entry, insert_file, data, lower, upper, par, logL, new_logL,
             hist, iteration, stop, floored, raised, cutoff, stepvars>>

VARIABLES
    sort_list,   \* sample_insert_sizes: the names of contig_sort_file, in order
    top_k,       \* sample_insert_sizes: the number of names to take
    contig_list, \* top_contigs.txt: the names head wrote
    bam,         \* the alignment records samtools view prints
    picked       \* the records whose insert size reached insert_size.txt

samplevars == <<sort_list, top_k, contig_list, bam, picked>>

VARIABLES
    cpc,         \* count_intra_inter_pairs: position
    scanned,     \* count_intra_inter_pairs: the lines of stdout read so far
    cnt_n,       \* count_intra_inter_pairs: n, the intra-contig pairs
    cnt_m,       \* count_intra_inter_pairs: m, the inter-contig pairs
    seen         \* count_intra_inter_pairs: the read names already counted

countvars == <<cpc, scanned, cnt_n, cnt_m, seen>>

VARIABLES
    stage,       \* main: the statement main is about to run
    step,        \* main: index of the next shell command after the cutoff
    gz_ok,       \* main: which of --hic1 --hic2 --sg1 --sg2 end with ".gz"
    written,     \* the files created in outdir so far
    sample_scan, \* outcome of samtools view in sample_insert_sizes
    count_scan,  \* outcome of samtools view in count_intra_inter_pairs
    last_status  \* exit statuses of the processes of the latest command

mainvars == <<stage, step, gz_ok, written, sample_scan, count_scan,
              last_status>>

VARIABLES
    long_range_ratio, \* main: the long-range chimeric read ratio, or None
    ratio_3d          \* main: the 3D ratio m / n, or None

ratiovars == <<long_range_ratio, ratio_3d>>

VARIABLES
    cutoff_value,          \* main: cutoff as main holds it, in units of
                           \* 1 / Scale, or NaN
    cutoff_file,           \* insert_size_cutoff.txt: the number written, in
                           \* hundredths, or nan, or None
    readnames,             \* readname_sg_in_hic.txt: its lines, in order
    all_readnames,         \* all_hic_readnames.txt: its lines, in order
    non_shotgun_readnames  \* readname_non_sg_in_hic.txt: its lines, in order

splitvars ==
    <<cutoff_value, cutoff_file, readnames, all_readnames,
      non_shotgun_readnames>>

VARIABLES
    bpc,               \* choose_best_bin: position
    stats_df,          \* choose_best_bin: the rows of the stats file
    min_completion,    \* choose_best_bin: float(sys.argv[2])
    max_contamination, \* choose_best_bin: float(sys.argv[3])
    row_i,             \* choose_best_bin: the number of rows processed
    best_bins,         \* choose_best_bin: the entries of the dictionary, in
                       \* the order in which the keys were inserted
    printed            \* choose_best_bin: the lines printed, in order

binvars ==
    <<bpc, stats_df, min_completion, max_contamination, row_i, best_bins,
      printed>>

VARIABLES
    sstep,          \* scaffolding: the step about to run, 1..11; 12 once the
                    \* metrics are saved; 0 when the run is not a scaffolding
    has_bam,        \* scaffolding: --bam was given
    has_hic1,       \* scaffolding: --hic1 was given
    has_hic2,       \* scaffolding: --hic2 was given
    executed,       \* scaffolding: the steps that were started, in order
    failed_steps,   \* scaffolding: the steps in which a command or a
                    \* computation failed
    none_hic_steps, \* scaffolding: the steps whose command was built with a
                    \* Hi-C read file that is None
    success_logged, \* scaffolding: 'Scaffolding pipeline completed
                    \* successfully!' was logged
    exit_status     \* scaffolding: "running", or the exit status "0" or "1"

scafvars ==
    <<sstep, has_bam, has_hic1, has_hic2, executed, failed_steps,
      none_hic_steps, success_logged, exit_status>>

othervars == <<splitvars, binvars, scafvars>>

vars == <<fitvars, samplevars, countvars, mainvars, ratiovars, othervars>>

None == [k |-> "none", m |-> 0, e |-> 0]

-----------------------------------------------------------------------------
(* numpy helpers on arrays (sequences of integers-valued doubles) *)

\* the k-th smallest element of a non-empty array (k = 1 .. Len(d)), as
\* np.percentile finds it in the sorted array
OrderStat(d, k) ==
    CHOOSE v \in {d[i] : i \in DOMAIN d} :
        /\ Cardinality({i \in DOMAIN d : d[i] < v}) < k
        /\ Cardinality({i \in DOMAIN d : d[i] <= v}) >= k

\* sum of the integers g[lo..hi]
RECURSIVE ISumRange(_, _, _)
ISumRange(g, lo, hi) ==
    IF lo > hi THEN 0
    ELSE IF lo = hi THEN g[lo]
    ELSE ISumRange(g, lo, (lo + hi) \div 2)
         + ISumRange(g, (lo + hi) \div 2 + 1, hi)

ISum(g) == ISumRange(g, 1, Len(g))

\* np.sum of the doubles f[lo..hi] (pairwise summation)
RECURSIVE FSumRange(_, _, _)
FSumRange(f, lo, hi) ==
    IF lo > hi THEN Zero
    ELSE IF lo = hi THEN f[lo]
    ELSE FAdd(FSumRange(f, lo, (lo + hi) \div 2),
              FSumRange(f, (lo + hi) \div 2 + 1, hi))

FSum(f, n) == FSumRange(f, 1, n)

IMax(a, b) == IF b > a THEN b ELSE a

\* ndarray.mean(): sum / count; the mean of an empty array is 0/0 = NaN
Mean(g) == FDiv(FromInt(ISum(g)), FromInt(Len(g)))

\* ndarray.std(ddof=1): sqrt(sum((x - mean)^2) / max(n - 1, 0)); NaN for an
\* array of fewer than two elements (0/0)
Std1(g) ==
    Only({FSqrt(FDiv(FSum([i \in 1..Len(g) |-> FSq(FSub(FromInt(g[i]), mu))],
                          Len(g)),
                     FromInt(IMax(Len(g) - 1, 0)))) : mu \in {Mean(g)}})

\* init_frac = 0.8 as the fraction InitFracNum / InitFracDen
InitFracNum == 4

InitFracDen == 5

\* data <= np.percentile(data, init_frac * 100), elementwise.  The
\* percentile interpolates linearly between the order statistics around the
\* virtual index init_frac * (n - 1); the comparison x <= q is made exactly,
\* in integers scaled by InitFracDen.
BelowQuantile(d, x) ==
    LET n  == Len(d)
        i  == (InitFracNum * (n - 1)) \div InitFracDen
        r  == (InitFracNum * (n - 1)) % InitFracDen
        a  == OrderStat(d, i + 1)
        b  == OrderStat(d, IF i + 2 <= n THEN i + 2 ELSE n)
    IN  InitFracDen * x <= InitFracDen * a + r * (b - a)

\* InitFracDen * np.percentile(data, init_frac * 100), which is an integer
QuantileScaled(d) ==
    LET n  == Len(d)
        i  == (InitFracNum * (n - 1)) \div InitFracDen
        r  == (InitFracNum * (n - 1)) % InitFracDen
        a  == OrderStat(d, i + 1)
        b  == OrderStat(d, IF i + 2 <= n THEN i + 2 ELSE n)
    IN  InitFracDen * a + r * (b - a)

-----------------------------------------------------------------------------
(* init_params *)

QuantileLower(d) == SelectSeq(d, LAMBDA x : BelowQuantile(d, x))

QuantileUpper(d) == SelectSeq(d, LAMBDA x : ~BelowQuantile(d, x))

\* lower after "if len(lower) == 0: lower = data[:max(1, len(data)//2)]"
LowerGroup(d) ==
    IF Len(QuantileLower(d)) = 0
    THEN SubSeq(d, 1, IMax(1, Len(d) \div 2))
    ELSE QuantileLower(d)

\* upper after "if len(upper) == 0: upper = data[max(1, len(data)//2):]"
UpperGroup(d) ==
    IF Len(QuantileUpper(d)) = 0
    THEN SubSeq(d, IMax(1, Len(d) \div 2) + 1, Len(d))
    ELSE QuantileUpper(d)

\* the statistics of the two groups, in the order init_params returns them
GroupStats(lo, up, n) ==
    <<Mean(lo), Mean(up), PyMax(Std1(lo), One), PyMax(Std1(up), One),
      FDiv(FromInt(Len(lo)), FromInt(n)),
      FSub(One, FDiv(FromInt(Len(lo)), FromInt(n)))>>

\* the tuple init_params returns: (mu_N, mu_C, sigma_N, sigma_C, pi_N, pi_C)
init_params(d) ==
    IF Len(d) = 0
    THEN <<FromInt(400), FromInt(2000), FromInt(100), FromInt(500),
           [k |-> "fin", m |-> 8000, e |-> -4],
           [k |-> "fin", m |-> 2000, e |-> -4]>>
    ELSE Only({GroupStats(lo, up, Len(d)) :
                  lo \in {LowerGroup(d)}, up \in {UpperGroup(d)}})

\* main: mu_N, mu_C, sigma_N, sigma_C, pi_N, pi_C = init_params(data)
BindInit(t) ==
    [mu_N |-> t[1], mu_C |-> t[2], sigma_N |-> t[3], sigma_C |-> t[4],
     pi_N |-> t[5], pi_C |-> t[6]]

-----------------------------------------------------------------------------
(* em_mix *)

\* tol = 1e-2
tol == [k |-> "fin", m |-> 1000, e |-> -5]

\* the floor 1e-10 of the responsibility denominator
TotalFloor == [k |-> "fin", m |-> 1000, e |-> -13]

\* the floor 1e-6 of the M-step's sigma
SigmaFloor == [k |-> "fin", m |-> 1000, e |-> -9]

\* sqrt(2 * pi), scipy's _norm_pdf_C
NormPdfC == [k |-> "fin", m |-> 2507, e |-> -3]

Two == [k |-> "fin", m |-> 2000, e |-> -3]

\* scipy.stats.norm.pdf(x, loc, scale): NaN unless scale > 0 and loc is a
\* number; otherwise exp(-z^2 / 2) / sqrt(2 pi) / scale with z = (x - loc)/scale
NormPdfF[x \in Float, loc \in Float, scale \in Float] ==
    IF ~FGt(scale, Zero) \/ IsNaN(loc) THEN NaN
    ELSE FDiv(FDiv(FExpNeg(FDiv(FSq(FDiv(FSub(x, loc), scale)), Two)),
                   NormPdfC),
              scale)

NormPdf(x, loc, scale) == NormPdfF[x, loc, scale]

\* pi_C * norm.pdf(data, mu_C, sigma_C) + pi_N * norm.pdf(data, mu_N, sigma_N)
\* at one sample value
Mixture(x, p) ==
    FAdd(FMul(p.pi_C, NormPdf(x, p.mu_C, p.sigma_C)),
         FMul(p.pi_N, NormPdf(x, p.mu_N, p.sigma_N)))

\* gamma = w / np.maximum(wC + wN, 1e-10), at one sample value
Responsibility(w, raw) == FDiv(w, NpMaximum(raw, TotalFloor))

\* The E-step at one sample value: wC + wN, gamma_C and gamma_N.
EStepAt(x, p) ==
    Only({[raw |-> FAdd(wC, wN),
           gamma_C |-> Responsibility(wC, FAdd(wC, wN)),
           gamma_N |-> Responsibility(wN, FAdd(wC, wN))] :
             wC \in {FMul(p.pi_C, NormPdf(x, p.mu_C, p.sigma_C))},
             wN \in {FMul(p.pi_N, NormPdf(x, p.mu_N, p.sigma_N))}})

\* gamma-weighted standard deviation around mu, floored by Python's max
WeightedSigma(gamma, x, n, mu, sum_gamma) ==
    PyMax(FSqrt(FDiv(FSum([i \in 1..n |->
                              FMul(gamma[i], FSq(FSub(x[i], mu)))], n),
                     sum_gamma)),
          SigmaFloor)

\* an M-step that updates the component whatever sum_gamma is, against
\* which the skip rule of C19 is tested
MStepAlways(gamma, x, n, sum_gamma, mu, sigma) ==
    Only({<<mu2, WeightedSigma(gamma, x, n, mu2, sum_gamma)>> :
             mu2 \in {FDiv(FSum([i \in 1..n |-> FMul(gamma[i], x[i])], n),
                           sum_gamma)}})

\* an M-step that skips the component only when sum_gamma is negative,
\* against which C24 is tested
MStepSkipNegative(gamma, x, n, sum_gamma, mu, sigma) ==
    IF FGe(sum_gamma, Zero)
    THEN Only({<<mu2, WeightedSigma(gamma, x, n, mu2, sum_gamma)>> :
                  mu2 \in {FDiv(FSum([i \in 1..n |-> FMul(gamma[i], x[i])],
                                     n),
                                sum_gamma)}})
    ELSE <<mu, sigma>>

\* The M-step of one component: (mu, sigma) updated when sum_gamma > 0,
\* otherwise left as they are.
MStep(gamma, x, n, sum_gamma, mu, sigma) ==
    IF FGt(sum_gamma, Zero)
    THEN Only({<<mu2, WeightedSigma(gamma, x, n, mu2, sum_gamma)>> :
                  mu2 \in {FDiv(FSum([i \in 1..n |-> FMul(gamma[i], x[i])],
                                     n),
                                sum_gamma)}})
    ELSE <<mu, sigma>>

\* the parameters after the M-step
MStepPar(gamma_C, gamma_N, x, n, sum_gamma_C, sum_gamma_N, p) ==
    Only({[mu_N |-> N[1], mu_C |-> C[1], sigma_N |-> N[2], sigma_C |-> C[2],
           pi_N |-> FDiv(sum_gamma_N, FromInt(n)),
           pi_C |-> FDiv(sum_gamma_C, FromInt(n))] :
             C \in {MStep(gamma_C, x, n, sum_gamma_C, p.mu_C, p.sigma_C)},
             N \in {MStep(gamma_N, x, n, sum_gamma_N, p.mu_N, p.sigma_N)}})

\* np.sum(np.log(pi_C * norm.pdf(...) + pi_N * norm.pdf(...)))
LogLikelihood(x, n, p) == FSum([i \in 1..n |-> FLog(Mixture(x[i], p))], n)

\* the loop body from the sums of the responsibilities on
EmStepSums(E, x, n, sum_gamma_C, sum_gamma_N, p) ==
    Only({[par |-> q,
           new_logL |-> LogLikelihood(x, n, q),
           sum_gamma_C |-> sum_gamma_C,
           sum_gamma_N |-> sum_gamma_N,
           floored |-> \E i \in 1..n : FLt(E[i].raw, TotalFloor)] :
             q \in {MStepPar([i \in 1..n |-> E[i].gamma_C],
                             [i \in 1..n |-> E[i].gamma_N],
                             x, n, sum_gamma_C, sum_gamma_N, p)}})

\* the loop body from the E-step on
EmStepFrom(E, x, n, p) ==
    Only({EmStepSums(E, x, n, sum_gamma_C, sum_gamma_N, p) :
             sum_gamma_C \in {FSum([i \in 1..n |-> E[i].gamma_C], n)},
             sum_gamma_N \in {FSum([i \in 1..n |-> E[i].gamma_N], n)}})

\* One pass of the loop body up to new_logL: the parameters after the
\* M-step, the new log-likelihood, and what the E-step saw.
EmStep(d, p) ==
    Only({Only({EmStepFrom(E, x, Len(d), p) :
                   E \in {[i \in 1..Len(d) |-> EStepAt(x[i], p)]}}) :
             x \in {[i \in 1..Len(d) |-> FromInt(d[i])]}})

\* a stopping test with the tolerance 1 instead of tol, against which the
\* stopping rule of C10 is tested
ConvergedLoose(old, new) == old # None /\ FLt(FAbs(FSub(new, old)), One)

\* "if logL is not None and abs(new_logL - logL) < tol"
Converged(old, new) == old # None /\ FLt(FAbs(FSub(new, old)), tol)

\* a return in the order of init_params, (mu_N, mu_C, sigma_N, sigma_C, pi_N,
\* pi_C), against which the binding of C20 is tested
EmReturnInitOrder(p) ==
    <<p.mu_N, p.mu_C, p.sigma_N, p.sigma_C, p.pi_N, p.pi_C>>

\* the tuple em_mix returns: (mu_C, mu_N, sigma_C, sigma_N, pi_C, pi_N)
EmReturn(p) == <<p.mu_C, p.mu_N, p.sigma_C, p.sigma_N, p.pi_C, p.pi_N>>

\* main: mu_C, mu_N, sigma_C, sigma_N, pi_C, pi_N = em_mix(...)
BindEm(t) ==
    [mu_C |-> t[1], mu_N |-> t[2], sigma_C |-> t[3], sigma_N |-> t[4],
     pi_C |-> t[5], pi_N |-> t[6]]

-----------------------------------------------------------------------------
(* The cutoff derivation of main *)

\* norm.ppf(0.05) = -1.6449 and norm.ppf(0.95) = 1.6449
Ppf05 == [k |-> "fin", m |-> -1645, e |-> -3]

Ppf95 == [k |-> "fin", m |-> 1645, e |-> -3]

Hundred == [k |-> "fin", m |-> 1000, e |-> -1]

FiveHundred == [k |-> "fin", m |-> 5000, e |-> -1]

Th_C(p) == FAdd(p.mu_C, FMul(Ppf05, p.sigma_C))

Th_N(p) == FAdd(p.mu_N, FMul(Ppf95, p.sigma_N))

\* the cutoff with the floor of 100 missing in the branch th_C <= 0, against
\* which the floor of C2 is tested
CutoffNoFloor(p, exc) ==
    IF exc THEN FiveHundred
    ELSE IF FLe(Th_N(p), Zero) THEN PyMax(Th_C(p), Hundred)
    ELSE IF FLe(Th_C(p), Zero) THEN Th_N(p)
    ELSE PyMax(PyMin(Th_C(p), Th_N(p)), Hundred)

\* the cutoff with the larger threshold taken when both are positive,
\* against which the case table of C14 is tested
CutoffLargerOfBoth(p, exc) ==
    IF exc THEN FiveHundred
    ELSE IF FLe(Th_N(p), Zero) THEN PyMax(Th_C(p), Hundred)
    ELSE IF FLe(Th_C(p), Zero) THEN PyMax(Th_N(p), Hundred)
    ELSE PyMax(PyMax(Th_C(p), Th_N(p)), Hundred)

\* the try block; exc: the computation raised (the bare except catches
\* everything, KeyboardInterrupt included)
CutoffOf(p, exc) ==
    IF exc THEN FiveHundred
    ELSE IF FLe(Th_N(p), Zero) THEN PyMax(Th_C(p), Hundred)
    ELSE IF FLe(Th_C(p), Zero) THEN PyMax(Th_N(p), Hundred)
    ELSE PyMax(PyMin(Th_C(p), Th_N(p)), Hundred)

-----------------------------------------------------------------------------
(* The fit as main runs it: the insert sizes read back from insert_size.txt,
   init_params, em_mix, the cutoff *)

Rep(v, c) == [i \in 1..c |-> v]

\* every sample of at most MaxN values
SmallSamples == UNION {[1..n -> Vals] : n \in 0..MaxN}

\* larger samples: a cluster of short inserts, optionally one stray value,
\* and a cluster of long inserts
BlockSamples ==
    {Rep(100, a) \o Rep(1000, b) \o Rep(4000, c) :
        a \in {5, 50}, b \in {0, 1}, c \in {2, 13}}

\* samples whose two groups overlap, so that the fit takes several iterations
MixedSamples ==
    {<<100, 100, 100, 300, 400, 500, 3000>>,
     <<100, 100, 300, 300, 300, 400, 500>>,
     <<100, 100, 100, 100, 300, 500, 3000>>}

\* two clusters: three short inserts and two long inserts
ClusterSample == <<100, 100, 100, 3000, 3000>>

NoPar ==
    [mu_N |-> None, mu_C |-> None, sigma_N |-> None, sigma_C |-> None,
     pi_N |-> None, pi_C |-> None]

\* nothing of the fit has run
FitIdle ==
    /\ data = <<>>
    /\ lower = <<>>
    /\ upper = <<>>
    /\ par = NoPar
    /\ logL = None
    /\ new_logL = None
    /\ hist = <<>>
    /\ iteration = 0
    /\ stop = "none"
    /\ floored = FALSE
    /\ raised = FALSE
    /\ cutoff = None
    /\ last_sum_gamma_C = None
    /\ last_sum_gamma_N = None
    /\ before = NoPar

\* sample_insert_sizes is not part of the run
SampleIdle ==
    /\ sort_list = <<>>
    /\ top_k = 0
    /\ contig_list = <<>>
    /\ bam = <<>>
    /\ picked = <<>>

\* count_intra_inter_pairs is not part of the run
CountIdle ==
    /\ cpc = "idle"
    /\ scanned = <<>>
    /\ cnt_n = 0
    /\ cnt_m = 0
    /\ seen = {}

\* the statements of main around the fit are not part of the run
MainIdle ==
    /\ stage = "idle"
    /\ step = 0
    /\ gz_ok = <<>>
    /\ written = {}
    /\ sample_scan = "none"
    /\ count_scan = "none"
    /\ last_status = <<>>

\* the ratios have not been computed
RatioIdle ==
    /\ long_range_ratio = None
    /\ ratio_3d = None

\* the reads have not been split
SplitIdle ==
    /\ cutoff_value = None
    /\ cutoff_file = None
    /\ readnames = <<>>
    /\ all_readnames = <<>>
    /\ non_shotgun_readnames = <<>>

\* choose_best_bin is not part of the run
BinIdle ==
    /\ bpc = "idle"
    /\ stats_df = <<>>
    /\ min_completion = 0
    /\ max_contamination = 0
    /\ row_i = 0
    /\ best_bins = <<>>
    /\ printed = <<>>

\* scaffolding.py is not part of the run
ScafIdle ==
    /\ sstep = 0
    /\ has_bam = FALSE
    /\ has_hic1 = FALSE
    /\ has_hic2 = FALSE
    /\ executed = <<>>
    /\ failed_steps = {}
    /\ none_hic_steps = {}
    /\ success_logged = FALSE
    /\ exit_status = "running"

OtherIdle == SplitIdle /\ BinIdle /\ ScafIdle

\* Either main has run the extraction pipeline of sample_insert_sizes, which
\* left its output in insert_size.txt, or init_params and em_mix are called
\* on an empty array.
Init ==
    /\ FitIdle
    /\ SampleIdle
    /\ CountIdle
    /\ MainIdle
    /\ RatioIdle
    /\ OtherIdle
    /\ \/ /\ entry = "main"
          /\ pc = "extracted"
          /\ \/ insert_file \in SmallSamples
             \/ insert_file \in BlockSamples
             \/ insert_file \in MixedSamples
             \/ insert_file = ClusterSample
       \/ /\ entry = "call"
          /\ pc = "init_params"
          /\ insert_file = <<>>

\* the default sample written when nothing was extracted
DefaultSample == <<300, 400, 500>>

\* sample_insert_sizes lines 68-72: an empty insert_size.txt is overwritten
\* with the default sample
FallbackSample(f) == IF Len(f) = 0 THEN DefaultSample ELSE f

EmptyFileFallback ==
    /\ pc = "extracted"
    /\ insert_file' = FallbackSample(insert_file)
    /\ pc' = "read_values"
    /\ UNCHANGED <<entry, data, lower, upper, par, logL, new_logL, hist,
                   iteration, stop, floored, raised, cutoff>>
    /\ UNCHANGED <<stepvars, samplevars, countvars, mainvars, ratiovars, othervars>>

\* main lines 210-219: the lines of insert_size.txt that are digits and lie
\* in (0, 5000)
ValidValues(f) == SelectSeq(f, LAMBDA v : v > 0 /\ v < 5000)

ReadValues ==
    /\ pc = "read_values"
    /\ data' = ValidValues(insert_file)
    /\ pc' = "init_params"
    /\ UNCHANGED <<entry, insert_file, lower, upper, par, logL, new_logL,
                   hist, iteration, stop, floored, raised, cutoff>>
    /\ UNCHANGED <<stepvars, samplevars, countvars, mainvars, ratiovars, othervars>>

\* main line 222: mu_N, mu_C, sigma_N, sigma_C, pi_N, pi_C = init_params(data)
InitParams ==
    /\ pc = "init_params"
    /\ par' = BindInit(init_params(data))
    /\ lower' = IF Len(data) = 0 THEN <<>> ELSE LowerGroup(data)
    /\ upper' = IF Len(data) = 0 THEN <<>> ELSE UpperGroup(data)
    /\ pc' = "em_mix"
    /\ UNCHANGED <<entry, insert_file, data, logL, new_logL, hist, iteration,
                   stop, floored, raised, cutoff>>
    /\ UNCHANGED <<stepvars, samplevars, countvars, mainvars, ratiovars, othervars>>

\* em_mix on an empty sample: the parameters are returned at once
EmEmpty ==
    /\ pc = "em_mix"
    /\ Len(data) = 0
    /\ par' = BindEm(EmReturn(par))
    /\ before' = par
    /\ stop' = "empty"
    /\ pc' = "cutoff"
    /\ UNCHANGED <<entry, insert_file, data, lower, upper, logL, new_logL,
                   hist, iteration, floored, raised, cutoff>>
    /\ UNCHANGED <<last_sum_gamma_C, last_sum_gamma_N>>
    /\ UNCHANGED <<samplevars, countvars, mainvars, ratiovars, othervars>>

\* one iteration of the loop of em_mix; the loop ends by the break or when
\* range(max_iter) is exhausted, and main binds the returned tuple
EmIter ==
    /\ pc = "em_mix"
    /\ Len(data) > 0
    /\ iteration < MaxIter
    /\ \E r \in {EmStep(data, par)} :
           /\ new_logL' = r.new_logL
           /\ hist' = Append(hist, r.new_logL)
           /\ floored' = r.floored
           /\ iteration' = iteration + 1
           /\ par' = BindEm(EmReturn(r.par))
           /\ last_sum_gamma_C' = r.sum_gamma_C
           /\ last_sum_gamma_N' = r.sum_gamma_N
           /\ IF Converged(logL, r.new_logL)
              THEN /\ stop' = "break"
                   /\ pc' = "cutoff"
                   /\ logL' = logL
              ELSE /\ logL' = r.new_logL
                   /\ stop' = IF iteration + 1 = MaxIter THEN "cap" ELSE "none"
                   /\ pc' = IF iteration + 1 = MaxIter THEN "cutoff"
                            ELSE "em_mix"
    /\ before' = par
    /\ UNCHANGED <<entry, insert_file, data, lower, upper, raised, cutoff>>
    /\ UNCHANGED <<samplevars, countvars, mainvars, ratiovars, othervars>>

\* main lines 247-259
DeriveCutoff ==
    /\ pc = "cutoff"
    /\ \E exc \in BOOLEAN :
          /\ raised' = exc
          /\ cutoff' = CutoffOf(par, exc)
    /\ pc' = "done"
    /\ UNCHANGED <<entry, insert_file, data, lower, upper, par, logL,
                   new_logL, hist, iteration, stop, floored>>
    /\ UNCHANGED <<stepvars, samplevars, countvars, mainvars, ratiovars, othervars>>

Next ==
    \/ EmptyFileFallback
    \/ ReadValues
    \/ InitParams
    \/ EmEmpty
    \/ EmIter
    \/ DeriveCutoff

Spec == Init /\ [][Next]_vars

\* the sequential program takes its next step
FairSpec == Spec /\ WF_vars(Next)

-----------------------------------------------------------------------------
(* The cutoff derivation on arbitrary finite parameters *)

\* close to the largest finite double, 1.797e308
Huge == [k |-> "fin", m |-> 1797, e |-> 305]

CutoffMus ==
    {FromInt(-1000), Zero, FromInt(50), FromInt(150), FromInt(3000), Huge}

CutoffSigmas ==
    {FromInt(-100), Zero, SigmaFloor, One, FromInt(100), FromInt(1000), Huge}

\* main has reached the try block with some finite parameters
InitCutoff ==
    /\ entry = "call"
    /\ pc = "cutoff"
    /\ par \in [mu_N : CutoffMus, mu_C : CutoffMus,
                sigma_N : CutoffSigmas, sigma_C : CutoffSigmas,
                pi_N : {One}, pi_C : {Zero}]
    /\ insert_file = <<>>
    /\ data = <<>>
    /\ lower = <<>>
    /\ upper = <<>>
    /\ logL = None
    /\ new_logL = None
    /\ hist = <<>>
    /\ iteration = 0
    /\ stop = "none"
    /\ floored = FALSE
    /\ raised = FALSE
    /\ cutoff = None
    /\ last_sum_gamma_C = None
    /\ last_sum_gamma_N = None
    /\ before = NoPar
    /\ SampleIdle
    /\ CountIdle
    /\ MainIdle
    /\ RatioIdle
    /\ OtherIdle

NextCutoff == DeriveCutoff

SpecCutoff == InitCutoff /\ [][NextCutoff]_vars

-----------------------------------------------------------------------------
(* sample_insert_sizes: head, then samtools view | grep -F -f | awk *)

\* Names are sequences of characters, so that grep's substring matching can
\* tell "c1" from "c10".
NameC1 == <<"c", "1">>

NameC10 == <<"c", "1", "0">>

NameC2 == <<"c", "2">>

NameR1 == <<"r", "1">>

\* RNEXT "=": the mate lies on the same reference
SameRef == <<"=">>

ContigNames == {NameC1, NameC10, NameC2}

MaxTopK == 2

MaxRecords == 2

\* the contig lists: the names in some order, without repetition
SortLists ==
    {l \in UNION {[1..k -> ContigNames] : k \in 1..3} :
        \A i, j \in 1..Len(l) : i # j => l[i] # l[j]}

TlenValues == {0, 300, -300, 5000, -5000}

\* alignment records: read name, reference name, mate's reference name and
\* the signed insert size (field 9); the other fields are numbers, flags and
\* sequence, in which no name of the model can occur.  The mate lies on the
\* same reference, or, for a read on c2, on c1.
Records ==
    {r \in [qname : {NameR1}, rname : ContigNames,
            rnext : {SameRef, NameC1}, tlen : TlenValues] :
        r.rnext = NameC1 => r.rname = NameC2}

\* s contains p as a contiguous substring
Contains(s, p) ==
    \E i \in 0..(Len(s) - Len(p)) : SubSeq(s, i + 1, i + Len(p)) = p

\* head -n k: the first k lines
HeadLines(k, l) == SubSeq(l, 1, IF k < Len(l) THEN k ELSE Len(l))

\* grep -F -f patterns: the line is kept when some pattern occurs anywhere in
\* it; a name holds no tab, so an occurrence lies inside one field
GrepF(patterns, r) ==
    \E j \in 1..Len(patterns) :
        \/ Contains(r.qname, patterns[j])
        \/ Contains(r.rname, patterns[j])
        \/ Contains(r.rnext, patterns[j])

\* awk '$9 != 0 && $9 > -5000 && $9 < 5000'
AwkKeeps(r) == r.tlen # 0 /\ r.tlen > -5000 /\ r.tlen < 5000

\* an output that prints field 9 as it is, against which C18 is tested
AwkPrintSigned(r) == r.tlen

\* awk's output: if ($9 < 0) print -$9; else print $9
AwkPrint(r) == IF r.tlen < 0 THEN -r.tlen ELSE r.tlen

\* the records that pass grep and awk, in order
Extracted(patterns, b) ==
    SelectSeq(b, LAMBDA r : GrepF(patterns, r) /\ AwkKeeps(r))

InitSample ==
    /\ FitIdle
    /\ RatioIdle
    /\ OtherIdle
    /\ CountIdle
    /\ MainIdle
    /\ entry = "main"
    /\ pc = "head"
    /\ insert_file = <<>>
    /\ sort_list \in SortLists
    /\ top_k \in 1..MaxTopK
    /\ contig_list = <<>>
    /\ bam \in UNION {[1..k -> Records] : k \in 0..MaxRecords}
    /\ picked = <<>>

\* line 58: head -n {top_k} {contig_sort_file} > {contig_list}
HeadCmd ==
    /\ pc = "head"
    /\ contig_list' = HeadLines(top_k, sort_list)
    /\ pc' = "extract"
    /\ UNCHANGED <<entry, insert_file, data, lower, upper, par, logL,
                   new_logL, hist, iteration, stop, floored, raised, cutoff>>
    /\ UNCHANGED <<sort_list, top_k, bam, picked>>
    /\ UNCHANGED <<stepvars, countvars, mainvars, ratiovars, othervars>>

\* lines 61-66: the extraction pipeline writes insert_size.txt
ExtractCmd ==
    /\ pc = "extract"
    /\ \E sel \in {Extracted(contig_list, bam)} :
          /\ picked' = sel
          /\ insert_file' = [i \in 1..Len(sel) |-> AwkPrint(sel[i])]
    /\ pc' = "extracted"
    /\ UNCHANGED <<entry, data, lower, upper, par, logL, new_logL, hist,
                   iteration, stop, floored, raised, cutoff>>
    /\ UNCHANGED <<sort_list, top_k, contig_list, bam>>
    /\ UNCHANGED <<stepvars, countvars, mainvars, ratiovars, othervars>>

NextSample ==
    \/ HeadCmd
    \/ ExtractCmd
    \/ EmptyFileFallback
    \/ ReadValues

SpecSample == InitSample /\ [][NextSample]_vars

-----------------------------------------------------------------------------
(* count_intra_inter_pairs *)

MaxLines == 3

\* A line of stdout after strip() and split('\t'): the sequence of its
\* fields; a blank line is the empty sequence.  Record lines have the read
\* name in field 1, the reference in field 3 and the mate's reference in
\* field 7; cut-off lines have fewer than 7 fields.  The mate's reference is
\* "=" (same reference), a reference name, or "*" (the mate is unmapped:
\* -F 0x904 excludes reads that are unmapped, not reads whose mate is).
StdoutLines ==
    {<<>>}
    \cup {<<q, "99", r>> : q \in {"r1", "r2"}, r \in {"c1"}}
    \cup {<<q, "99", r, "1", "60", "50M", mt>> :
             q \in {"r1", "r2"}, r \in {"c1", "c2"},
             mt \in {"=", "c1", "c2", "*"}}

\* a loop body that counts a line whether or not its read name was seen,
\* against which C3 is tested
CountStepNoSeen(line, c) ==
    IF Len(line) = 0 THEN c
    ELSE IF Len(line) < 7 THEN c
    ELSE IF line[7] = "=" \/ line[7] = line[3]
         THEN [n |-> c.n + 1, m |-> c.m, seen |-> c.seen \cup {line[1]}]
         ELSE [n |-> c.n, m |-> c.m + 1, seen |-> c.seen \cup {line[1]}]

\* a loop body that takes only a mate reference spelled like the record's
\* reference as intra-contig, against which C17 is tested
CountStepLiteralOnly(line, c) ==
    IF Len(line) = 0 THEN c
    ELSE IF Len(line) < 7 THEN c
    ELSE IF line[1] \in c.seen THEN c
    ELSE IF line[7] = line[3]
         THEN [n |-> c.n + 1, m |-> c.m, seen |-> c.seen \cup {line[1]}]
         ELSE [n |-> c.n, m |-> c.m + 1, seen |-> c.seen \cup {line[1]}]

\* lines 164-185: the body of the loop over the lines, on the counters
\* c = [n, m, seen]
CountStep(line, c) ==
    IF Len(line) = 0 THEN c
    ELSE IF Len(line) < 7 THEN c
    ELSE IF line[1] \in c.seen THEN c
    ELSE IF line[7] = "=" \/ line[7] = line[3]
         THEN [n |-> c.n + 1, m |-> c.m, seen |-> c.seen \cup {line[1]}]
         ELSE [n |-> c.n, m |-> c.m + 1, seen |-> c.seen \cup {line[1]}]

InitCount ==
    /\ FitIdle
    /\ RatioIdle
    /\ OtherIdle
    /\ SampleIdle
    /\ MainIdle
    /\ entry = "call"
    /\ pc = "count"
    /\ insert_file = <<>>
    /\ cpc = "loop"
    /\ scanned = <<>>
    /\ cnt_n = 0
    /\ cnt_m = 0
    /\ seen = {}

\* one pass of the loop: the next line of stdout
CountLine ==
    /\ cpc = "loop"
    /\ Len(scanned) < MaxLines
    /\ \E line \in StdoutLines :
          \E c \in {CountStep(line, [n |-> cnt_n, m |-> cnt_m,
                                     seen |-> seen])} :
              /\ scanned' = Append(scanned, line)
              /\ cnt_n' = c.n
              /\ cnt_m' = c.m
              /\ seen' = c.seen
    /\ UNCHANGED cpc
    /\ UNCHANGED <<fitvars, samplevars, mainvars, ratiovars, othervars>>

\* stdout is exhausted: return n, m
CountReturn ==
    /\ cpc = "loop"
    /\ cpc' = "returned"
    /\ UNCHANGED <<scanned, cnt_n, cnt_m, seen>>
    /\ UNCHANGED <<fitvars, samplevars, mainvars, ratiovars, othervars>>

NextCount ==
    \/ CountLine
    \/ CountReturn

SpecCount == InitCount /\ [][NextCount]_vars

-----------------------------------------------------------------------------
(* main: the statements around the fit, with the outcomes of the shell
   commands *)

GzArgs == {"--hic1", "--hic2", "--sg1", "--sg2"}

\* subprocess.run(cmd, shell=True): the status of a pipeline is the status of
\* its last process (sh without pipefail)
PipelineStatus(st) == st[Len(st)]

\* run_command raises CalledProcessError iff check is set and the status is
\* not zero
RunCommandRaises(check, status) == check /\ status # 0

\* the exit statuses a command of k processes can end with
Statuses(k) == [1..k -> {0, 1}]

ScanOutcome(status) == IF status = 0 THEN "ok" ELSE "failed"

\* the shell commands of main after the cutoff file, in order: the number
\* of processes of the pipeline and the file the shell redirection creates
LaterCommands ==
    <<[procs |-> 4, out |-> "readname_sg_in_hic.txt"],
      [procs |-> 2, out |-> "sg_in_hic.forward.fastq.gz"],
      [procs |-> 2, out |-> "sg_in_hic.reverse.fastq.gz"],
      [procs |-> 1, out |-> "new_sg_forward.fastq.gz"],
      [procs |-> 1, out |-> "new_sg_reverse.fastq.gz"],
      [procs |-> 3, out |-> "all_hic_readnames.txt"],
      [procs |-> 1, out |-> "readname_non_sg_in_hic.txt"],
      [procs |-> 2, out |-> "non_sg_in_hic.forward.fastq.gz"],
      [procs |-> 2, out |-> "non_sg_in_hic.reverse.fastq.gz"],
      [procs |-> 1, out |-> "reassembled_bins"]>>

InitMain ==
    /\ FitIdle
    /\ RatioIdle
    /\ OtherIdle
    /\ SampleIdle
    /\ CountIdle
    /\ entry = "main"
    /\ pc = "main"
    /\ insert_file = <<>>
    /\ stage = "check_args"
    /\ step = 0
    /\ gz_ok \in [GzArgs -> BOOLEAN]
    /\ written = {}
    /\ sample_scan = "none"
    /\ count_scan = "none"
    /\ last_status = <<>>

\* a check of the two Hi-C read files only, against which C26 is tested
CheckArgsHicOnly ==
    /\ stage = "check_args"
    /\ stage' = IF gz_ok["--hic1"] /\ gz_ok["--hic2"] THEN "makedirs"
                ELSE "raised"
    /\ UNCHANGED <<step, gz_ok, written, sample_scan, count_scan,
                   last_status>>
    /\ UNCHANGED <<fitvars, samplevars, countvars, ratiovars, othervars>>

\* lines 193-200: every read file must end with ".gz"
CheckArgs ==
    /\ stage = "check_args"
    /\ stage' = IF \A a \in GzArgs : gz_ok[a] THEN "makedirs" ELSE "raised"
    /\ UNCHANGED <<step, gz_ok, written, sample_scan, count_scan,
                   last_status>>
    /\ UNCHANGED <<fitvars, samplevars, countvars, ratiovars, othervars>>

\* line 203: os.makedirs(args.outdir, exist_ok=True)
MakeDirs ==
    /\ stage = "makedirs"
    /\ stage' = "head"
    /\ written' = written \cup {"outdir"}
    /\ UNCHANGED <<step, gz_ok, sample_scan, count_scan, last_status>>
    /\ UNCHANGED <<fitvars, samplevars, countvars, ratiovars, othervars>>

\* line 58: run_command("head ... > top_contigs.txt")
RunHead ==
    /\ stage = "head"
    /\ \E st \in Statuses(1) :
          /\ last_status' = st
          /\ stage' = IF RunCommandRaises(TRUE, PipelineStatus(st))
                      THEN "raised" ELSE "extract"
    /\ written' = written \cup {"top_contigs.txt"}
    /\ UNCHANGED <<step, gz_ok, sample_scan, count_scan>>
    /\ UNCHANGED <<fitvars, samplevars, countvars, ratiovars, othervars>>

\* an extraction that is started and not waited for, against which C22 is
\* tested: main goes on while the pipeline has neither ended nor written
RunExtractDetached ==
    /\ stage = "extract"
    /\ \E st \in Statuses(3) : last_status' = st
    /\ stage' = "fit"
    /\ UNCHANGED <<step, gz_ok, written, sample_scan, count_scan>>
    /\ UNCHANGED <<fitvars, samplevars, countvars, ratiovars, othervars>>

\* lines 61-66: run_command("samtools view | grep | awk > insert_size.txt")
RunExtract ==
    /\ stage = "extract"
    /\ \E st \in Statuses(3) :
          /\ last_status' = st
          /\ sample_scan' = ScanOutcome(st[1])
          /\ stage' = IF RunCommandRaises(TRUE, PipelineStatus(st))
                      THEN "raised" ELSE "fit"
    /\ written' = written \cup {"insert_size.txt"}
    /\ UNCHANGED <<step, gz_ok, count_scan>>
    /\ UNCHANGED <<fitvars, samplevars, countvars, ratiovars, othervars>>

\* lines 68-72 and 210-231: the fallback sample, the fit, and pi_C written
\* to mixing_proportion.txt
FitAndSavePi ==
    /\ stage = "fit"
    /\ written' = written \cup {"mixing_proportion.txt"}
    /\ stage' = "count"
    /\ UNCHANGED <<step, gz_ok, sample_scan, count_scan, last_status>>
    /\ UNCHANGED <<fitvars, samplevars, countvars, ratiovars, othervars>>

\* lines 158-159: run_command("samtools view -f 1 -F 0x904", check=False)
RunCount ==
    /\ stage = "count"
    /\ \E st \in Statuses(1) :
          /\ last_status' = st
          /\ count_scan' = ScanOutcome(st[1])
          /\ stage' = IF RunCommandRaises(FALSE, PipelineStatus(st))
                      THEN "raised" ELSE "ratios"
    /\ UNCHANGED <<step, gz_ok, written, sample_scan>>
    /\ UNCHANGED <<fitvars, samplevars, countvars, ratiovars, othervars>>

\* lines 235-245
SaveRatios ==
    /\ stage = "ratios"
    /\ written' = written \cup {"long_range_ratio.txt", "3d_ratio.txt"}
    /\ stage' = "cutoff"
    /\ UNCHANGED <<step, gz_ok, sample_scan, count_scan, last_status>>
    /\ UNCHANGED <<fitvars, samplevars, countvars, ratiovars, othervars>>

\* lines 247-266
SaveCutoff ==
    /\ stage = "cutoff"
    /\ written' = written \cup {"insert_size_cutoff.txt"}
    /\ stage' = "shell"
    /\ step' = 1
    /\ UNCHANGED <<gz_ok, sample_scan, count_scan, last_status>>
    /\ UNCHANGED <<fitvars, samplevars, countvars, ratiovars, othervars>>

\* lines 270-312: the next run_command of the rest of main
RunLater ==
    /\ stage = "shell"
    /\ \E st \in Statuses(LaterCommands[step].procs) :
          /\ last_status' = st
          /\ IF RunCommandRaises(TRUE, PipelineStatus(st))
             THEN stage' = "raised" /\ step' = step
             ELSE IF step = Len(LaterCommands)
             THEN stage' = "completed" /\ step' = step
             ELSE stage' = "shell" /\ step' = step + 1
    /\ written' = written \cup {LaterCommands[step].out}
    /\ UNCHANGED <<gz_ok, sample_scan, count_scan>>
    /\ UNCHANGED <<fitvars, samplevars, countvars, ratiovars, othervars>>

NextMain ==
    \/ CheckArgs
    \/ MakeDirs
    \/ RunHead
    \/ RunExtract
    \/ FitAndSavePi
    \/ RunCount
    \/ SaveRatios
    \/ SaveCutoff
    \/ RunLater

SpecMain == InitMain /\ [][NextMain]_vars

-----------------------------------------------------------------------------
(* main: the two ratios computed from n, m and pi_C *)

MaxPairs == 5

\* the weights pi_C of the model: 0, 0.3, 0.5 and 1
PiValues ==
    {Zero, [k |-> "fin", m |-> 3000, e |-> -4],
     [k |-> "fin", m |-> 5000, e |-> -4], One}

\* a long-range ratio whose guard looks at n alone, against which C15 is
\* tested
LongRangeRatioGuardN(n, m, pi) ==
    IF n > 0
    THEN FDiv(FAdd(FMul(FromInt(n), pi), FromInt(m)), FromInt(n + m))
    ELSE NaN

\* line 235: (n * pi_C + m) / (n + m) if (n + m) > 0 else float('nan')
LongRangeRatio(n, m, pi) ==
    IF n + m > 0
    THEN FDiv(FAdd(FMul(FromInt(n), pi), FromInt(m)), FromInt(n + m))
    ELSE NaN

\* line 241: m / n if n > 0 else float('inf')
Ratio3d(n, m) == IF n > 0 THEN FDiv(FromInt(m), FromInt(n)) ELSE Inf(1)

\* main holds n and m as count_intra_inter_pairs returned them (cnt_n, cnt_m)
\* and pi_C as em_mix returned it
InitRatios ==
    /\ SampleIdle
    /\ MainIdle
    /\ RatioIdle
    /\ OtherIdle
    /\ entry = "call"
    /\ pc = "ratios"
    /\ insert_file = <<>>
    /\ data = <<>>
    /\ lower = <<>>
    /\ upper = <<>>
    /\ \E p \in PiValues : par = [NoPar EXCEPT !.pi_C = p]
    /\ logL = None
    /\ new_logL = None
    /\ hist = <<>>
    /\ iteration = 0
    /\ stop = "none"
    /\ floored = FALSE
    /\ raised = FALSE
    /\ cutoff = None
    /\ last_sum_gamma_C = None
    /\ last_sum_gamma_N = None
    /\ before = NoPar
    /\ cpc = "returned"
    /\ scanned = <<>>
    /\ cnt_n \in 0..MaxPairs
    /\ cnt_m \in 0..MaxPairs
    /\ seen = {}

\* lines 235 and 241
ComputeRatios ==
    /\ pc = "ratios"
    /\ long_range_ratio' = LongRangeRatio(cnt_n, cnt_m, par.pi_C)
    /\ ratio_3d' = Ratio3d(cnt_n, cnt_m)
    /\ pc' = "ratios_done"
    /\ UNCHANGED <<entry, insert_file, data, lower, upper, par, logL,
                   new_logL, hist, iteration, stop, floored, raised, cutoff>>
    /\ UNCHANGED <<stepvars, samplevars, countvars, mainvars, othervars>>

NextRatios == ComputeRatios

SpecRatios == InitRatios /\ [][NextRatios]_vars

-----------------------------------------------------------------------------
(* main: the cutoff file and the split of the read names *)

\* The cutoff main holds is a double; the model takes the doubles c / Scale
\* with c an integer, which are exact binary fractions, and NaN.
Scale == 1024

\* read names, numbered in the order in which sort puts them
MaxNames == 2

\* a number v / Scale held by main, or v / 100 read from the file
Exact(v) == [k |-> "fin", v |-> v]

NotANumber == [k |-> "nan", v |-> 0]

CutoffValues ==
    {NotANumber, Exact(100 * Scale), Exact(123 * Scale + 1019),
     Exact(124 * Scale + 5), Exact(124 * Scale + 512)}

SplitTlens == {0, 100, -100, 124, -124, 125}

\* an alignment record: the read name (field 1) and the template length
\* (field 9)
SplitRecords == [qname : 1..MaxNames, tlen : SplitTlens]

\* f"{cutoff:.2f}", in hundredths: the exact value rounded to two decimals,
\* a tie to the even neighbour
Format2f(c) ==
    IF c.k = "nan" THEN NotANumber
    ELSE IF 2 * ((c.v * 100) % Scale) > Scale
              \/ /\ 2 * ((c.v * 100) % Scale) = Scale
                 /\ ((c.v * 100) \div Scale) % 2 = 1
         THEN Exact((c.v * 100) \div Scale + 1)
         ELSE Exact((c.v * 100) \div Scale)

\* a band that is closed below and open above, against which C27 is tested
AwkBandOpenAbove(c, t) ==
    IF c.k = "nan" THEN FALSE
    ELSE -c.v <= t * Scale /\ t * Scale < c.v /\ t # 0

\* awk '($9 >= -{cutoff} && $9 <= {cutoff} && $9 != 0)' with f"{cutoff}", the
\* shortest text that reads back as the same double.  For NaN the text is
\* nan, which awk reads as a variable that was never set, of value 0.
AwkBand(c, t) ==
    IF c.k = "nan" THEN t >= 0 /\ t <= 0 /\ t # 0
    ELSE t * Scale >= -c.v /\ t * Scale <= c.v /\ t # 0

\* cut -f1: the read names of the records, in order
Cut1(b) == [i \in 1..Len(b) |-> b[i].qname]

\* sort -u: the distinct lines in increasing order
SortU(l) ==
    CHOOSE f \in [1..Cardinality({l[i] : i \in 1..Len(l)}) ->
                     {l[i] : i \in 1..Len(l)}] :
        \A i, j \in DOMAIN f : i < j => f[i] < f[j]

\* comm -23 a b on sorted files: the lines of a that b does not hold, found
\* by stepping through both files in order
RECURSIVE Comm23(_, _)
Comm23(a, b) ==
    IF Len(a) = 0 THEN <<>>
    ELSE IF Len(b) = 0 THEN a
    ELSE IF a[1] < b[1] THEN <<a[1]>> \o Comm23(Tail(a), b)
    ELSE IF a[1] = b[1] THEN Comm23(Tail(a), Tail(b))
    ELSE Comm23(a, Tail(b))

\* main has derived the cutoff and is about to write it
InitSplit ==
    /\ FitIdle
    /\ CountIdle
    /\ MainIdle
    /\ RatioIdle
    /\ BinIdle
    /\ ScafIdle
    /\ entry = "main"
    /\ pc = "save_cutoff"
    /\ insert_file = <<>>
    /\ sort_list = <<>>
    /\ top_k = 0
    /\ contig_list = <<>>
    /\ bam \in UNION {[1..k -> SplitRecords] : k \in 0..MaxRecords}
    /\ picked = <<>>
    /\ cutoff_value \in CutoffValues
    /\ cutoff_file = None
    /\ readnames = <<>>
    /\ all_readnames = <<>>
    /\ non_shotgun_readnames = <<>>

\* lines 261-264: f.write(f"{cutoff:.2f}\n")
SaveCutoffFile ==
    /\ pc = "save_cutoff"
    /\ cutoff_file' = Format2f(cutoff_value)
    /\ pc' = "extract_sg"
    /\ UNCHANGED <<cutoff_value, readnames, all_readnames,
                   non_shotgun_readnames>>
    /\ UNCHANGED <<entry, insert_file, data, lower, upper, par, logL,
                   new_logL, hist, iteration, stop, floored, raised, cutoff>>
    /\ UNCHANGED <<stepvars, samplevars, countvars, mainvars, ratiovars,
                   binvars, scafvars>>

\* lines 268-274: samtools view | awk | cut -f1 | sort -u > readnames
ExtractSg ==
    /\ pc = "extract_sg"
    /\ readnames' =
          SortU(Cut1(SelectSeq(bam,
                               LAMBDA r : AwkBand(cutoff_value, r.tlen))))
    /\ pc' = "combine"
    /\ UNCHANGED <<cutoff_value, cutoff_file, all_readnames,
                   non_shotgun_readnames>>
    /\ UNCHANGED <<entry, insert_file, data, lower, upper, par, logL,
                   new_logL, hist, iteration, stop, floored, raised, cutoff>>
    /\ UNCHANGED <<stepvars, samplevars, countvars, mainvars, ratiovars,
                   binvars, scafvars>>

\* lines 276-284: seqtk subseq and cat write the fastq files; the lists of
\* read names are left as they are
CombineReads ==
    /\ pc = "combine"
    /\ pc' = "all_names"
    /\ UNCHANGED splitvars
    /\ UNCHANGED <<entry, insert_file, data, lower, upper, par, logL,
                   new_logL, hist, iteration, stop, floored, raised, cutoff>>
    /\ UNCHANGED <<stepvars, samplevars, countvars, mainvars, ratiovars,
                   binvars, scafvars>>

\* line 292: samtools view | cut -f1 | sort -u > all_readnames
AllReadnames ==
    /\ pc = "all_names"
    /\ all_readnames' = SortU(Cut1(bam))
    /\ pc' = "comm"
    /\ UNCHANGED <<cutoff_value, cutoff_file, readnames,
                   non_shotgun_readnames>>
    /\ UNCHANGED <<entry, insert_file, data, lower, upper, par, logL,
                   new_logL, hist, iteration, stop, floored, raised, cutoff>>
    /\ UNCHANGED <<stepvars, samplevars, countvars, mainvars, ratiovars,
                   binvars, scafvars>>

\* line 295: comm -23 all_readnames readnames > non_shotgun_readnames
CommNames ==
    /\ pc = "comm"
    /\ non_shotgun_readnames' = Comm23(all_readnames, readnames)
    /\ pc' = "split_done"
    /\ UNCHANGED <<cutoff_value, cutoff_file, readnames, all_readnames>>
    /\ UNCHANGED <<entry, insert_file, data, lower, upper, par, logL,
                   new_logL, hist, iteration, stop, floored, raised, cutoff>>
    /\ UNCHANGED <<stepvars, samplevars, countvars, mainvars, ratiovars,
                   binvars, scafvars>>

NextSplit ==
    \/ SaveCutoffFile
    \/ ExtractSg
    \/ CombineReads
    \/ AllReadnames
    \/ CommNames

SpecSplit == InitSplit /\ [][NextSplit]_vars

-----------------------------------------------------------------------------
(* choose_best_bin.py *)

MaxRows == 2

\* A bin name is the sequence of its parts between the dots: bin.1.orig is
\* <<"bin", "1", "orig">>.
BinNames ==
    {<<"bin", b, st>> : b \in {"1", "2"},
                        st \in {"orig", "strict", "permissive"}}

\* the completeness and contamination of a bin version, in percent
Qualities == {<<95, 1>>, <<90, 0>>, <<40, 0>>}

\* the rows of the data frame: bin versions, and a line that repeats the
\* header (its first cell holds the word completeness)
StatsRows ==
    [header : {FALSE}, name : BinNames, quality : Qualities,
     n50 : {1000, 2000}]
    \cup {[header |-> TRUE, name |-> <<"bin">>, quality |-> <<0, 0>>,
           n50 |-> 0]}

\* line 42: ".".join(bin_name.split(".")[:-1])
BaseBinName(name) == SubSeq(name, 1, Len(name) - 1)

\* line 43: bin_name.split(".")[-1]
Style(name) == name[Len(name)]

\* line 46: completeness + 5 * (100 - contamination)
Score(completeness, contamination) ==
    completeness + 5 * (100 - contamination)

\* line 38, negated: the version is considered
Considered(completeness, contamination, minc, maxc) ==
    ~(completeness < minc \/ contamination > maxc)

\* a comparison by score alone, against which the tie-break of C28 is tested
BetterByScoreOnly(score, n50, current) == score > current.score

\* line 56: score > current_score or (score == current_score and n50 >
\* current_n50)
Better(score, n50, current) ==
    \/ score > current.score
    \/ score = current.score /\ n50 > current.n50

\* the position of key in the dictionary, 0 when it is not a key
KeyIndex(d, key) ==
    IF \E i \in 1..Len(d) : d[i].key = key
    THEN CHOOSE i \in 1..Len(d) : d[i].key = key
    ELSE 0

\* lines 28-57: the body of the loop for one row, on the dictionary d
RowStep(row, d, minc, maxc) ==
    IF row.header THEN d
    ELSE IF ~Considered(row.quality[1], row.quality[2], minc, maxc) THEN d
    ELSE Only({IF KeyIndex(d, e.key) = 0 THEN Append(d, e)
               ELSE IF Better(e.score, e.n50, d[KeyIndex(d, e.key)])
               THEN [d EXCEPT ![KeyIndex(d, e.key)] = e]
               ELSE d :
                 e \in {[key |-> BaseBinName(row.name),
                         style |-> Style(row.name),
                         score |-> Score(row.quality[1], row.quality[2]),
                         n50 |-> row.n50]}})

InitBin ==
    /\ FitIdle
    /\ SampleIdle
    /\ CountIdle
    /\ MainIdle
    /\ RatioIdle
    /\ SplitIdle
    /\ ScafIdle
    /\ entry = "call"
    /\ pc = "choose_best_bin"
    /\ insert_file = <<>>
    /\ bpc = "loop"
    /\ stats_df \in UNION {[1..k -> StatsRows] : k \in 0..MaxRows}
    /\ min_completion \in {50, 95}
    /\ max_contamination \in {0, 10}
    /\ row_i = 0
    /\ best_bins = <<>>
    /\ printed = <<>>

\* lines 27-57: one pass of the loop over the rows
ProcessRow ==
    /\ bpc = "loop"
    /\ row_i < Len(stats_df)
    /\ best_bins' = RowStep(stats_df[row_i + 1], best_bins, min_completion,
                            max_contamination)
    /\ row_i' = row_i + 1
    /\ UNCHANGED <<bpc, stats_df, min_completion, max_contamination, printed>>
    /\ UNCHANGED <<fitvars, samplevars, countvars, mainvars, ratiovars,
                   splitvars, scafvars>>

\* lines 60-61: print(f"{bin_name}.{best_bins[bin_name][0]}") for every key
PrintBest ==
    /\ bpc = "loop"
    /\ row_i = Len(stats_df)
    /\ printed' = [i \in 1..Len(best_bins) |->
                      Append(best_bins[i].key, best_bins[i].style)]
    /\ bpc' = "done"
    /\ UNCHANGED <<stats_df, min_completion, max_contamination, row_i,
                   best_bins>>
    /\ UNCHANGED <<fitvars, samplevars, countvars, mainvars, ratiovars,
                   splitvars, scafvars>>

NextBin == ProcessRow \/ PrintBest

SpecBin == InitBin /\ [][NextBin]_vars

-----------------------------------------------------------------------------
(* scaffolding.py: the steps of the pipeline *)

\* A step has run the commands cmds and has ended: with ok the run goes on
\* to the next step, otherwise logger.error and sys.exit(1), or an exception
\* that the handlers at the end turn into sys.exit(1).
StepEnds(k, cmds, ok) ==
    /\ executed' = executed \o cmds
    /\ sstep' = IF ok THEN k + 1 ELSE k
    /\ exit_status' = IF ok THEN exit_status ELSE "1"
    /\ failed_steps' = IF ok THEN failed_steps ELSE failed_steps \cup {k}

\* the arguments are parsed, the output directory and the log exist
InitScaf ==
    /\ FitIdle
    /\ SampleIdle
    /\ CountIdle
    /\ MainIdle
    /\ RatioIdle
    /\ SplitIdle
    /\ BinIdle
    /\ entry = "main"
    /\ pc = "scaffolding"
    /\ insert_file = <<>>
    /\ sstep = 1
    /\ has_bam \in BOOLEAN
    /\ has_hic1 \in BOOLEAN
    /\ has_hic2 \in BOOLEAN
    /\ executed = <<>>
    /\ failed_steps = {}
    /\ none_hic_steps = {}
    /\ success_logged = FALSE
    /\ exit_status = "running"

\* step 1, lines 598-607: filter_fasta_by_length; no contig retained, or an
\* exception, ends the run
FilterFasta ==
    /\ exit_status = "running"
    /\ sstep = 1
    /\ \E ok \in BOOLEAN : StepEnds(1, <<"filter">>, ok)
    /\ UNCHANGED <<none_hic_steps, success_logged>>
    /\ UNCHANGED <<has_bam, has_hic1, has_hic2>>
    /\ UNCHANGED <<fitvars, samplevars, countvars, mainvars, ratiovars,
                   splitvars, binvars>>

\* step 2, lines 609-619: samtools faidx unless the index exists
IndexFasta ==
    /\ exit_status = "running"
    /\ sstep = 2
    /\ \/ StepEnds(2, <<>>, TRUE)
       \/ \E ok \in BOOLEAN : StepEnds(2, <<"faidx">>, ok)
    /\ UNCHANGED <<none_hic_steps, success_logged>>
    /\ UNCHANGED <<has_bam, has_hic1, has_hic2>>
    /\ UNCHANGED <<fitvars, samplevars, countvars, mainvars, ratiovars,
                   splitvars, binvars>>

\* step 3, lines 621-668: samtools sort -n of the given BAM, or, without a
\* BAM, alignment.sh on --hic1 and --hic2, which must both be given
AlignOrSort ==
    /\ exit_status = "running"
    /\ sstep = 3
    /\ IF has_bam
       THEN \E ok \in BOOLEAN : StepEnds(3, <<"sort">>, ok)
       ELSE IF ~has_hic1 \/ ~has_hic2
       THEN StepEnds(3, <<>>, FALSE)
       ELSE \E ok \in BOOLEAN : StepEnds(3, <<"align">>, ok)
    /\ UNCHANGED <<none_hic_steps, success_logged>>
    /\ UNCHANGED <<has_bam, has_hic1, has_hic2>>
    /\ UNCHANGED <<fitvars, samplevars, countvars, mainvars, ratiovars,
                   splitvars, binvars>>

\* step 4, lines 670-688: yahs, and its output must exist
RunYahs ==
    /\ exit_status = "running"
    /\ sstep = 4
    /\ \E ok \in BOOLEAN : StepEnds(4, <<"yahs">>, ok)
    /\ UNCHANGED <<none_hic_steps, success_logged>>
    /\ UNCHANGED <<has_bam, has_hic1, has_hic2>>
    /\ UNCHANGED <<fitvars, samplevars, countvars, mainvars, ratiovars,
                   splitvars, binvars>>

\* step 5, lines 690-697: cut_scaffolds_to_segments
CutScaffolds ==
    /\ exit_status = "running"
    /\ sstep = 5
    /\ \E ok \in BOOLEAN : StepEnds(5, <<"cut">>, ok)
    /\ UNCHANGED <<none_hic_steps, success_logged>>
    /\ UNCHANGED <<has_bam, has_hic1, has_hic2>>
    /\ UNCHANGED <<fitvars, samplevars, countvars, mainvars, ratiovars,
                   splitvars, binvars>>

\* step 6, lines 699-725: alignment.sh -1 {args.hic1} -2 {args.hic2}, whether
\* or not the two files were given
Realign ==
    /\ exit_status = "running"
    /\ sstep = 6
    /\ \E ok \in BOOLEAN : StepEnds(6, <<"realign">>, ok)
    /\ none_hic_steps' = IF has_hic1 /\ has_hic2 THEN none_hic_steps
                         ELSE none_hic_steps \cup {6}
    /\ UNCHANGED success_logged
    /\ UNCHANGED <<has_bam, has_hic1, has_hic2>>
    /\ UNCHANGED <<fitvars, samplevars, countvars, mainvars, ratiovars,
                   splitvars, binvars>>

\* step 7, lines 727-766: ContactMatrix and its two files
BuildContactMatrix ==
    /\ exit_status = "running"
    /\ sstep = 7
    /\ \E ok \in BOOLEAN : StepEnds(7, <<"contact_matrix">>, ok)
    /\ UNCHANGED <<none_hic_steps, success_logged>>
    /\ UNCHANGED <<has_bam, has_hic1, has_hic2>>
    /\ UNCHANGED <<fitvars, samplevars, countvars, mainvars, ratiovars,
                   splitvars, binvars>>

\* step 8, lines 768-803: the contig file must exist; normcc, NormCCMap
NormalizeMatrix ==
    /\ exit_status = "running"
    /\ sstep = 8
    /\ \E ok \in BOOLEAN : StepEnds(8, <<"normcc">>, ok)
    /\ UNCHANGED <<none_hic_steps, success_logged>>
    /\ UNCHANGED <<has_bam, has_hic1, has_hic2>>
    /\ UNCHANGED <<fitvars, samplevars, countvars, mainvars, ratiovars,
                   splitvars, binvars>>

\* step 9, lines 805-809: create_scaffold_mapping
ScaffoldMapping ==
    /\ exit_status = "running"
    /\ sstep = 9
    /\ \E ok \in BOOLEAN : StepEnds(9, <<"mapping">>, ok)
    /\ UNCHANGED <<none_hic_steps, success_logged>>
    /\ UNCHANGED <<has_bam, has_hic1, has_hic2>>
    /\ UNCHANGED <<fitvars, samplevars, countvars, mainvars, ratiovars,
                   splitvars, binvars>>

\* step 10, lines 811-838: the required files must exist; heatmap.py
RunHeatmap ==
    /\ exit_status = "running"
    /\ sstep = 10
    /\ \E ok \in BOOLEAN : StepEnds(10, <<"heatmap">>, ok)
    /\ UNCHANGED <<none_hic_steps, success_logged>>
    /\ UNCHANGED <<has_bam, has_hic1, has_hic2>>
    /\ UNCHANGED <<fitvars, samplevars, countvars, mainvars, ratiovars,
                   splitvars, binvars>>

\* the outcomes of calculating_metrics: it returns with every metric, it
\* returns with a metric missing because CheckM2 failed (run_checkm2 logs a
\* warning and returns None, None) or because an enrichment ratio could not
\* be computed (a warning as well), or it raises
MetricsOutcomes == {"ok", "checkm2_failed", "enrichment_failed", "raised"}

\* step 11, lines 840-852: calculating_metrics, save_metrics, and the
\* message of success; the script then ends, with status 0
QualityMetrics ==
    /\ exit_status = "running"
    /\ sstep = 11
    /\ \E out \in MetricsOutcomes :
          /\ executed' = Append(executed, "metrics")
          /\ failed_steps' = IF out = "ok" THEN failed_steps
                             ELSE failed_steps \cup {11}
          /\ sstep' = IF out = "raised" THEN 11 ELSE 12
          /\ exit_status' = IF out = "raised" THEN "1" ELSE "0"
          /\ success_logged' = (out # "raised")
    /\ UNCHANGED none_hic_steps
    /\ UNCHANGED <<has_bam, has_hic1, has_hic2>>
    /\ UNCHANGED <<fitvars, samplevars, countvars, mainvars, ratiovars,
                   splitvars, binvars>>

NextScaf ==
    \/ FilterFasta
    \/ IndexFasta
    \/ AlignOrSort
    \/ RunYahs
    \/ CutScaffolds
    \/ Realign
    \/ BuildContactMatrix
    \/ NormalizeMatrix
    \/ ScaffoldMapping
    \/ RunHeatmap
    \/ QualityMetrics

SpecScaf == InitScaf /\ [][NextScaf]_vars

-----------------------------------------------------------------------------
(* Properties of the fit *)

\* init_params has returned for a non-empty sample
Fitted == Len(data) > 0 /\ pc \in {"em_mix", "cutoff", "done"}

\* the rounding of the four-digit arithmetic in a sum of two weights
PiTol == [k |-> "fin", m |-> 5000, e |-> -6]

WeightsNormalised(p) ==
    /\ FLe(FAbs(FSub(FAdd(p.pi_N, p.pi_C), One)), PiTol)
    /\ FGe(p.pi_N, Zero) /\ FLe(p.pi_N, FAdd(One, PiTol))
    /\ FGe(p.pi_C, Zero) /\ FLe(p.pi_C, FAdd(One, PiTol))

\* C1: for a non-empty sample, the weights returned by init_params and the
\* weights held after every iteration of em_mix satisfy pi_N + pi_C = 1 with
\* both weights in [0,1], also in an iteration where the 1e-10 floor replaced
\* the responsibility denominator.
C1_WeightsNormalised == Fitted => WeightsNormalised(par)

\* an E-step floored a denominator and left weights that are numbers but do
\* not sum to 1
C1_FloorWitness ==
    /\ Fitted
    /\ floored
    /\ IsFin(par.pi_N) /\ IsFin(par.pi_C)
    /\ FLt(FAdd(par.pi_N, par.pi_C), FSub(One, PiTol))

\* C6: on the default sample {300, 400, 500} the fit and the cutoff hold no
\* NaN: both sigmas are numbers, pi_C is a number in [0,1] and the cutoff is
\* finite and at least 100.
C6_DefaultSampleIsSafe ==
    (pc = "done" /\ data = <<300, 400, 500>>) =>
        /\ ~IsNaN(par.sigma_N) /\ ~IsNaN(par.sigma_C)
        /\ FGe(par.pi_C, Zero) /\ FLe(par.pi_C, One)
        /\ IsFin(cutoff) /\ FGe(cutoff, Hundred)

\* C7: for every non-empty sample, after the quantile split and its
\* fallback both lower and upper hold at least one value.
C7_GroupsNonEmpty == Fitted => (Len(lower) >= 1 /\ Len(upper) >= 1)

\* C8: for every non-empty sample init_params returns sigma_N >= 1.0 and
\* sigma_C >= 1.0.
C8_InitSigmaFloored ==
    (Fitted /\ pc = "em_mix" /\ iteration = 0) =>
        (FGe(par.sigma_N, One) /\ FGe(par.sigma_C, One))

\* C9: for a non-empty sample, the sigmas held after every iteration of
\* em_mix, and those it returns, are numbers >= 1e-6.
C9_SigmaAtLeastFloor ==
    (Fitted /\ iteration >= 1) =>
        (FGe(par.sigma_N, SigmaFloor) /\ FGe(par.sigma_C, SigmaFloor))

\* |logL_k - logL_(k-1)| < tol, on the recorded log-likelihoods
LogLClose(k) ==
    k >= 2 /\ FLt(FAbs(FSub(hist[k], hist[k - 1])), tol)

StoppingRule ==
    Fitted =>
        /\ iteration <= MaxIter
        /\ Len(hist) = iteration
        /\ \A k \in 1..(iteration - 1) : ~LogLClose(k)
        /\ stop \in {"none", "break", "cap"}
        /\ stop = "break" => (iteration >= 2 /\ LogLClose(iteration))
        /\ stop = "cap" => (iteration = MaxIter /\ ~LogLClose(iteration))
        /\ stop = "none" =>
               /\ pc = "em_mix"
               /\ iteration < MaxIter
               /\ iteration >= 1 => ~LogLClose(iteration)
        /\ pc \in {"cutoff", "done"} => stop \in {"break", "cap"}

\* C10: on a non-empty sample em_mix terminates; it runs at most max_iter
\* iterations, never stops by the convergence test at iteration 1, stops at
\* the first iteration k >= 2 with |logL_k - logL_(k-1)| < tol, and runs
\* exactly max_iter iterations when there is no such k (NaN and infinite
\* log-likelihoods included).
C10_StoppingRule ==
    /\ []StoppingRule
    /\ (pc = "em_mix" /\ Len(data) > 0) ~> (pc = "cutoff")

\* a fit that converged gradually and stopped at an iteration after the
\* second
C10_Witness ==
    /\ pc = "done"
    /\ stop = "break"
    /\ iteration >= 3
    /\ iteration < MaxIter
    /\ hist[1] # hist[2]

\* init_params has just returned for a non-empty sample
Initialised == Fitted /\ pc = "em_mix" /\ iteration = 0

\* |a - b| <= d
Near(a, b, d) == FLe(FAbs(FSub(a, b)), d)

\* C11: for the sample (100, 100, 100, 3000, 3000) init_params finds the
\* 80th percentile 100, splits the sample into 4 lower values and 1 upper
\* value, and returns mu_N close to 100 and mu_C close to 3000 with pi_C > 0.
C11_ClusterScenario ==
    (Initialised /\ data = <<100, 100, 100, 3000, 3000>>) =>
        /\ QuantileScaled(data) = InitFracDen * 100
        /\ Len(lower) = 4
        /\ Len(upper) = 1
        /\ Near(par.mu_N, FromInt(100), FromInt(50))
        /\ Near(par.mu_C, FromInt(3000), FromInt(50))
        /\ FGt(par.pi_C, Zero)

\* the permutations of 1..n
Perms(n) ==
    {f \in [1..n -> 1..n] : \A i, j \in 1..n : i # j => f[i] # f[j]}

\* the sample d in the order f
Reordered(d, f) == [i \in 1..Len(d) |-> d[f[i]]]

\* C12: for every non-empty sample and every permutation of it, init_params
\* returns the same (mu_N, mu_C, sigma_N, sigma_C, pi_N, pi_C), also when the
\* quantile split leaves a partition empty and the fallback is used.  (Stated
\* for the samples of at most MaxN values.)
C12_OrderIndependent ==
    (Initialised /\ Len(data) <= MaxN) =>
        \A f \in Perms(Len(data)) :
            BindInit(init_params(Reordered(data, f))) = par

\* the quantile split left one of its partitions empty
SplitLeftEmpty(d) ==
    Len(QuantileLower(d)) = 0 \/ Len(QuantileUpper(d)) = 0

\* C13: when the quantile split of a sample of at least two values leaves a
\* partition empty, lower is the first half of the sample and upper the
\* second half: the groups are disjoint and cover the sample, and
\* pi_N = |first half| / |sample| with pi_C = 1 - pi_N > 0.
C13_PositionalHalfSplit ==
    (Initialised /\ Len(data) >= 2 /\ SplitLeftEmpty(data)) =>
        /\ lower = SubSeq(data, 1, Len(data) \div 2)
        /\ upper = SubSeq(data, Len(data) \div 2 + 1, Len(data))
        /\ Len(lower) + Len(upper) = Len(data)
        /\ par.pi_N = FDiv(FromInt(Len(data) \div 2), FromInt(Len(data)))
        /\ FGt(par.pi_C, Zero)

\* an iteration of em_mix on a non-empty sample has just ended: before holds
\* the parameters the iteration started from
Stepped == Fitted /\ iteration >= 1

\* the gamma-weighted mean and standard deviation of the sample, with the
\* responsibilities g computed from the parameters before the iteration
UpdateOf(g, x, n, sum_gamma) ==
    Only({<<mu2, WeightedSigma(g, x, n, mu2, sum_gamma)>> :
             mu2 \in {FDiv(FSum([i \in 1..n |-> FMul(g[i], x[i])], n),
                           sum_gamma)}})

UpdatedC ==
    UpdateOf([i \in 1..Len(data) |->
                 EStepAt(FromInt(data[i]), before).gamma_C],
             [i \in 1..Len(data) |-> FromInt(data[i])], Len(data),
             last_sum_gamma_C)

UpdatedN ==
    UpdateOf([i \in 1..Len(data) |->
                 EStepAt(FromInt(data[i]), before).gamma_N],
             [i \in 1..Len(data) |-> FromInt(data[i])], Len(data),
             last_sum_gamma_N)

\* C19: in an iteration in which the sum of gamma_C is not > 0 (zero or
\* NaN), mu_C and sigma_C keep the values they had before the iteration, and
\* symmetrically mu_N and sigma_N; a component whose sum is > 0 is updated
\* whether or not the other one was skipped, and pi_C, pi_N are updated to
\* the means of the responsibilities in every iteration.
C19_SkipRule ==
    Stepped =>
        /\ ~FGt(last_sum_gamma_C, Zero) =>
              par.mu_C = before.mu_C /\ par.sigma_C = before.sigma_C
        /\ ~FGt(last_sum_gamma_N, Zero) =>
              par.mu_N = before.mu_N /\ par.sigma_N = before.sigma_N
        /\ FGt(last_sum_gamma_C, Zero) =>
              \E u \in {UpdatedC} : par.mu_C = u[1] /\ par.sigma_C = u[2]
        /\ FGt(last_sum_gamma_N, Zero) =>
              \E u \in {UpdatedN} : par.mu_N = u[1] /\ par.sigma_N = u[2]
        /\ par.pi_C = FDiv(last_sum_gamma_C, FromInt(Len(data)))
        /\ par.pi_N = FDiv(last_sum_gamma_N, FromInt(Len(data)))

\* an iteration whose sum of gamma_C was zero: the C component was kept and
\* the N component changed
C19_Witness ==
    /\ Stepped
    /\ last_sum_gamma_C = Zero
    /\ par.mu_C = before.mu_C
    /\ par.sigma_C = before.sigma_C
    /\ FGt(last_sum_gamma_N, Zero)
    /\ par.sigma_N # before.sigma_N

\* C20: on an empty sample em_mix runs no iteration and returns the initial
\* parameters unchanged, and main binds each returned value to the variable
\* of the same component: after the call every parameter has the value
\* init_params gave to that component.
C20_EmptySampleNoOp ==
    stop = "empty" =>
        /\ Len(data) = 0
        /\ iteration = 0
        /\ hist = <<>>
        /\ logL = None
        /\ par = before
        /\ par.mu_N = init_params(data)[1]
        /\ par.mu_C = init_params(data)[2]
        /\ par.sigma_N = init_params(data)[3]
        /\ par.sigma_C = init_params(data)[4]
        /\ par.pi_N = init_params(data)[5]
        /\ par.pi_C = init_params(data)[6]

\* em_mix has returned on the empty sample, with parameters that differ
\* between the two components
C20_Witness ==
    /\ stop = "empty"
    /\ pc \in {"cutoff", "done"}
    /\ Len(data) = 0
    /\ par.mu_C = FromInt(2000)
    /\ par.mu_N = FromInt(400)
    /\ par.sigma_C # par.sigma_N
    /\ par.pi_C # par.pi_N

\* what init_params returned for the sample
InitPar == BindInit(init_params(data))

\* a positive number, neither NaN nor infinite
PositiveNumber(a) == IsFin(a) /\ FGt(a, Zero)

\* C24: when init_params returns pi_C = 0 and both sigmas are positive
\* numbers, pi_C is 0 after every iteration of em_mix and mu_C, sigma_C stay
\* as init_params returned them, so that em_mix returns them.
C24_ZeroWeightAbsorbing ==
    \A p0 \in {IF Fitted THEN InitPar ELSE NoPar} :
        (/\ Fitted
         /\ p0.pi_C = Zero
         /\ PositiveNumber(p0.sigma_C)
         /\ PositiveNumber(p0.sigma_N)) =>
            /\ par.pi_C = Zero
            /\ par.mu_C = p0.mu_C
            /\ par.sigma_C = p0.sigma_C

\* em_mix has returned after several iterations that began with pi_C = 0,
\* and the other component has moved
C24_Witness ==
    /\ Fitted
    /\ pc = "done"
    /\ iteration >= 2
    /\ InitPar.pi_C = Zero
    /\ PositiveNumber(InitPar.sigma_C)
    /\ PositiveNumber(InitPar.sigma_N)
    /\ par.pi_C = Zero
    /\ par.sigma_N # InitPar.sigma_N

\* C25: for every sample of at least two values init_params returns
\* mu_N <= mu_C, also when the positional fallback fills an empty group.
C25_MeansInOrder ==
    (Initialised /\ Len(data) >= 2) => FLe(par.mu_N, par.mu_C)

\* init_params has returned a non-chimeric mean above the chimeric mean
C25_MeansSwapped ==
    /\ Initialised
    /\ Len(data) >= 2
    /\ FGt(par.mu_N, par.mu_C)

-----------------------------------------------------------------------------
(* Properties of the cutoff derivation *)

FinitePar(p) ==
    IsFin(p.mu_N) /\ IsFin(p.mu_C) /\ IsFin(p.sigma_N) /\ IsFin(p.sigma_C)

\* C2: for all finite mu_C, mu_N, sigma_C, sigma_N and whichever branch is
\* taken (th_N <= 0, th_C <= 0, both positive, or the exception fallback),
\* the cutoff is at least 100.
C2_CutoffAtLeast100 ==
    (pc = "done" /\ FinitePar(par)) => FGe(cutoff, Hundred)

\* the branch th_C <= 0 with th_N below 100: the floor decides the cutoff
C2_Witness ==
    /\ pc = "done"
    /\ ~raised
    /\ FinitePar(par)
    /\ FGt(Th_N(par), Zero)
    /\ FLe(Th_C(par), Zero)
    /\ FLt(Th_N(par), Hundred)
    /\ cutoff = Hundred

\* the larger and the smaller of two numbers
NumMax(a, b) == IF FGe(a, b) THEN a ELSE b

NumMin(a, b) == IF FLe(a, b) THEN a ELSE b

FiniteTh(p) == IsFin(Th_C(p)) /\ IsFin(Th_N(p))

\* C14: for all finite th_C, th_N the cutoff is max(min(th_C, th_N), 100)
\* when both are positive, max(th_C, 100) when th_N <= 0, max(th_N, 100) when
\* th_C <= 0 and th_N > 0, hence exactly 100 when both are <= 0; it is the
\* default 500 only when the computation raised an exception.
C14_CutoffCaseTable ==
    (pc = "done" /\ FinitePar(par) /\ FiniteTh(par)) =>
        IF raised THEN cutoff = FiveHundred
        ELSE /\ (FGt(Th_C(par), Zero) /\ FGt(Th_N(par), Zero)) =>
                    cutoff = NumMax(NumMin(Th_C(par), Th_N(par)), Hundred)
             /\ FLe(Th_N(par), Zero) => cutoff = NumMax(Th_C(par), Hundred)
             /\ (FLe(Th_C(par), Zero) /\ FGt(Th_N(par), Zero)) =>
                    cutoff = NumMax(Th_N(par), Hundred)
             /\ (FLe(Th_C(par), Zero) /\ FLe(Th_N(par), Zero)) =>
                    cutoff = Hundred

\* both thresholds positive, different and above 100: the smaller one is the
\* cutoff
C14_Witness ==
    /\ pc = "done"
    /\ ~raised
    /\ FinitePar(par)
    /\ FGt(Th_N(par), Hundred)
    /\ FGt(Th_C(par), Th_N(par))
    /\ IsFin(Th_C(par))
    /\ cutoff = Th_N(par)

-----------------------------------------------------------------------------
(* Properties of count_intra_inter_pairs *)

\* the read names of the lines with at least 7 fields
NamesOfRecords(lines) ==
    {lines[i][1] : i \in {j \in 1..Len(lines) : Len(lines[j]) >= 7}}

\* the step read a line whose read name had been seen
DuplicateLineRead ==
    /\ Len(scanned') = Len(scanned) + 1
    /\ Len(scanned'[Len(scanned')]) >= 7
    /\ scanned'[Len(scanned')][1] \in NamesOfRecords(scanned)

\* C3: after any sequence of lines, n + m is the number of distinct read
\* names among the lines with at least 7 fields, and a line whose read name
\* was already seen changes neither n nor m.
C3_EachNameCountedOnce ==
    /\ [](cnt_n + cnt_m = Cardinality(NamesOfRecords(scanned)))
    /\ [][DuplicateLineRead => (cnt_n' = cnt_n /\ cnt_m' = cnt_m)]_vars

\* a read name occurred on an intra-contig line and again on an inter-contig
\* line, and was counted once
C3_Witness ==
    /\ cpc = "returned"
    /\ \E i, j \in 1..Len(scanned) :
          /\ i < j
          /\ Len(scanned[i]) >= 7
          /\ Len(scanned[j]) >= 7
          /\ scanned[i][1] = scanned[j][1]
          /\ scanned[i][7] = "="
          /\ scanned[j][7] # "=" /\ scanned[j][7] # scanned[j][3]
    /\ cnt_n = 1
    /\ cnt_m = 0

-----------------------------------------------------------------------------
(* Properties of main and of sample_insert_sizes *)

\* C4: when the samtools scan fails during insert-size sampling or during
\* pair counting, the run aborts there and writes none of the later output
\* files mixing_proportion.txt, long_range_ratio.txt, 3d_ratio.txt and
\* insert_size_cutoff.txt.
C4_ScanFailureIsFatal ==
    /\ sample_scan = "failed" =>
          written \cap {"mixing_proportion.txt", "long_range_ratio.txt",
                        "3d_ratio.txt", "insert_size_cutoff.txt"} = {}
    /\ count_scan = "failed" =>
          written \cap {"long_range_ratio.txt", "3d_ratio.txt",
                        "insert_size_cutoff.txt"} = {}

\* the names sample_insert_sizes is asked to sample: the first top_k names
TopKNames ==
    {sort_list[j] : j \in 1..(IF top_k < Len(sort_list) THEN top_k
                              ELSE Len(sort_list))}

\* C5: every insert size written to insert_size.txt comes from a record
\* whose reference name is exactly one of the first top_k names of the contig
\* list.
C5_OnlyWhitelistedRecords ==
    pc \in {"extracted", "read_values", "init_params"} =>
        \A i \in 1..Len(picked) : picked[i].rname \in TopKNames

\* the record's template length is not zero and its magnitude is below 5000
TlenInRange(r) == r.tlen # 0 /\ Abs(r.tlen) < 5000

\* the records of the alignment file that contribute a value: those whose
\* line holds one of the sampled names and whose template length is in range
Contributing ==
    SelectSeq(bam, LAMBDA r : GrepF(contig_list, r) /\ TlenInRange(r))

\* C18 as stated: every value of data is the absolute value of a non-zero
\* template length of a record and lies strictly between 0 and 5000.
C18_EveryValueIsATemplateLength ==
    pc = "init_params" =>
        \A i \in 1..Len(data) :
            /\ 0 < data[i] /\ data[i] < 5000
            /\ \E j \in 1..Len(bam) :
                  bam[j].tlen # 0 /\ data[i] = Abs(bam[j].tlen)

\* C18, amended: unless no record contributed a value and data is the
\* default sample 300, 400, 500, every value of data is the absolute value
\* of a non-zero template length; in both cases every value lies strictly
\* between 0 and 5000.  A record with template length 0 or of magnitude
\* >= 5000 contributes nothing, each other sampled record contributes one
\* value, and tlen and -tlen contribute the same value.
C18_TemplateLengthsOrDefault ==
    pc = "init_params" =>
        /\ \A i \in 1..Len(data) : 0 < data[i] /\ data[i] < 5000
        /\ Len(Contributing) = 0 => data = <<300, 400, 500>>
        /\ Len(Contributing) > 0 =>
              /\ Len(data) = Len(Contributing)
              /\ \A i \in 1..Len(data) :
                    /\ Contributing[i].tlen # 0
                    /\ data[i] = Abs(Contributing[i].tlen)
                    /\ data[i] = Abs(-Contributing[i].tlen)

\* two sampled records with template lengths 300 and -300 gave the same
\* value twice
C18_Witness ==
    /\ pc = "init_params"
    /\ Len(bam) = 2
    /\ bam[1].tlen = 300
    /\ bam[2].tlen = -300
    /\ data = <<300, 300>>

\* the step counted the line it read into m
CountedIntoM ==
    /\ Len(scanned') = Len(scanned) + 1
    /\ cnt_m' = cnt_m + 1

\* the step counted the line it read into n
CountedIntoN ==
    /\ Len(scanned') = Len(scanned) + 1
    /\ cnt_n' = cnt_n + 1

\* the mate of the record is mapped to a reference other than the record's
MateOnOtherReference(line) ==
    /\ Len(line) >= 7
    /\ line[7] \notin {"=", "*", line[3]}

\* the mate of the record is mapped to the record's reference
MateOnSameReference(line) ==
    /\ Len(line) >= 7
    /\ line[7] \in {"=", line[3]}

\* C16: m counts only pairs whose two ends map to two different references:
\* a record whose mate reference is '*' is never added to m, and every
\* record added to n has its mate on the record's own reference.
C16_InterCountsMappedMates ==
    [][/\ CountedIntoM => MateOnOtherReference(scanned'[Len(scanned')])
       /\ CountedIntoN => MateOnSameReference(scanned'[Len(scanned')])]_vars

\* a record whose mate is unmapped has been counted, and m is not zero
C16_UnmappedMateCounted ==
    /\ cpc = "returned"
    /\ Len(scanned) = 1
    /\ Len(scanned[1]) >= 7
    /\ scanned[1][7] = "*"
    /\ cnt_m = 1

\* every record among the lines has its mate on its own reference, written
\* as the reference name or as '='
AllIntra(lines) ==
    \A i \in 1..Len(lines) :
        Len(lines[i]) >= 7 => MateOnSameReference(lines[i])

\* C17: when every record's mate reference equals the record's reference
\* (literally or as '='), count_intra_inter_pairs returns m = 0 and n = the
\* number of distinct read names, whatever the order and multiplicity of the
\* records.
C17_AllIntraCounts ==
    (cpc = "returned" /\ AllIntra(scanned)) =>
        /\ cnt_m = 0
        /\ cnt_n = Cardinality(NamesOfRecords(scanned))

\* two read names, one of them on two records, with both spellings of the
\* mate reference
C17_Witness ==
    /\ cpc = "returned"
    /\ AllIntra(scanned)
    /\ Len(scanned) = 3
    /\ \A i \in 1..3 : Len(scanned[i]) >= 7
    /\ scanned[1][1] = scanned[2][1]
    /\ scanned[3][1] # scanned[1][1]
    /\ \E i, j \in 1..3 : scanned[i][7] = "=" /\ scanned[j][7] = scanned[j][3]
    /\ cnt_n = 2
    /\ cnt_m = 0

\* C15: for all n, m >= 0 and pi_C in [0,1], long_range_ratio is
\* (n * pi_C + m) / (n + m) when n + m > 0 and NaN exactly when n + m = 0;
\* 3d_ratio is m / n when n > 0 and +infinity exactly when n = 0, also when
\* m = 0; n = 0, m = 5, pi_C = 0.3 gives long_range_ratio 1 and 3d_ratio
\* +infinity.
C15_RatioValues ==
    pc = "ratios_done" =>
        /\ cnt_n + cnt_m > 0 =>
              long_range_ratio =
                  FDiv(FAdd(FMul(FromInt(cnt_n), par.pi_C), FromInt(cnt_m)),
                       FromInt(cnt_n + cnt_m))
        /\ IsNaN(long_range_ratio) <=> (cnt_n + cnt_m = 0)
        /\ cnt_n > 0 => ratio_3d = FDiv(FromInt(cnt_m), FromInt(cnt_n))
        /\ (ratio_3d = Inf(1)) <=> (cnt_n = 0)
        /\ (cnt_n = 0 /\ cnt_m > 0) => long_range_ratio = One

\* the spec's example: n = 0, m = 5, pi_C = 0.3
C15_Witness ==
    /\ pc = "ratios_done"
    /\ cnt_n = 0
    /\ cnt_m = 5
    /\ par.pi_C = [k |-> "fin", m |-> 3000, e |-> -4]
    /\ long_range_ratio = One
    /\ ratio_3d = Inf(1)

\* the band filter with the number read from insert_size_cutoff.txt
PublishedBand(f, t) ==
    IF f.k = "nan" THEN FALSE
    ELSE t * 100 >= -f.v /\ t * 100 <= f.v /\ t # 0

\* the template lengths around the cutoffs of the model
BandTlens == -130..130

\* C21: for every integer template length t, the filter main runs with the
\* cutoff it holds selects t if and only if the same filter with the value
\* written to insert_size_cutoff.txt selects t.
C21_BandOfPublishedCutoff ==
    cutoff_file # None =>
        \A t \in BandTlens :
            AwkBand(cutoff_value, t) <=> PublishedBand(cutoff_file, t)

\* the file says 124.00, a record of template length 124 was in the
\* alignment file, and no read name was selected
C21_RoundedUpCutoff ==
    /\ pc = "split_done"
    /\ cutoff_file = Exact(12400)
    /\ Len(bam) = 1
    /\ bam[1].tlen = 124
    /\ readnames = <<>>

\* the names on the lines of a list
Lines(l) == {l[i] : i \in 1..Len(l)}

\* t is not zero and lies within [-c, c]
WithinCutoff(c, t) ==
    /\ c.k = "fin"
    /\ t # 0
    /\ -c.v <= t * Scale
    /\ t * Scale <= c.v

\* the read names with a record whose template length is within the cutoff
ShotgunLike ==
    {bam[i].qname : i \in {j \in 1..Len(bam) :
                              WithinCutoff(cutoff_value, bam[j].tlen)}}

\* C27: the shotgun-like list and the non-shotgun-like list are disjoint,
\* their union is the set of all read names of the alignment file, and a read
\* name is on the shotgun-like list if and only if one of its records has a
\* non-zero template length within [-cutoff, cutoff].
C27_ReadNamePartition ==
    pc = "split_done" =>
        /\ Lines(readnames) \cap Lines(non_shotgun_readnames) = {}
        /\ Lines(readnames) \cup Lines(non_shotgun_readnames)
              = {bam[i].qname : i \in 1..Len(bam)}
        /\ Lines(readnames) = ShotgunLike

\* both lists hold a name, and the shotgun-like name also has a record
\* outside the band
C27_Witness ==
    /\ pc = "split_done"
    /\ Len(readnames) = 1
    /\ Len(non_shotgun_readnames) = 1
    /\ \E i, j \in 1..Len(bam) :
          /\ bam[i].qname = readnames[1]
          /\ bam[j].qname = non_shotgun_readnames[1]
          /\ bam[i].tlen = 100
          /\ cutoff_value = Exact(100 * Scale)
          /\ ~WithinCutoff(cutoff_value, bam[j].tlen)

\* the stages of main that come after the extraction of the insert sizes
AfterExtract ==
    {"fit", "count", "ratios", "cutoff", "shell", "completed"}

\* C22: the stages of main do not overlap: the fit starts only after the
\* extraction pipeline has ended and left insert_size.txt, the two ratio
\* files are written only after the pair-counting command has ended, and
\* the read extraction starts only after insert_size_cutoff.txt has been
\* written.
C22_StagesInOrder ==
    /\ stage \in AfterExtract =>
          sample_scan # "none" /\ "insert_size.txt" \in written
    /\ ("long_range_ratio.txt" \in written \/ "3d_ratio.txt" \in written) =>
          count_scan # "none" /\ "mixing_proportion.txt" \in written
    /\ (stage = "shell" \/ "readname_sg_in_hic.txt" \in written) =>
          "insert_size_cutoff.txt" \in written

\* the read extraction is about to start, after every earlier stage
C22_Witness ==
    /\ stage = "shell"
    /\ step = 1
    /\ sample_scan = "ok"
    /\ count_scan = "ok"
    /\ {"insert_size.txt", "long_range_ratio.txt", "3d_ratio.txt",
        "insert_size_cutoff.txt"} \subseteq written
    /\ "readname_sg_in_hic.txt" \notin written

\* C26: if one of --hic1, --hic2, --sg1, --sg2 does not end in '.gz', main
\* raises before the output directory is created, before any external
\* command is run and before any output file is written.
C26_ValidationFirst ==
    (\E a \in GzArgs : ~gz_ok[a]) =>
        /\ stage \in {"check_args", "raised"}
        /\ written = {}
        /\ last_status = <<>>
        /\ sample_scan = "none"
        /\ count_scan = "none"

\* main has raised for a shotgun read file, the last one checked
C26_Witness ==
    /\ stage = "raised"
    /\ gz_ok["--hic1"] /\ gz_ok["--hic2"] /\ gz_ok["--sg1"]
    /\ ~gz_ok["--sg2"]
    /\ written = {}
    /\ last_status = <<>>

\* the rows that are versions of bins and meet both thresholds
QualifyingRows ==
    {i \in 1..Len(stats_df) :
        /\ ~stats_df[i].header
        /\ stats_df[i].quality[1] >= min_completion
        /\ stats_df[i].quality[2] <= max_contamination}

RowScore(i) ==
    stats_df[i].quality[1] + 5 * (100 - stats_df[i].quality[2])

\* row i is a best qualifying version of its bin: no qualifying version of
\* the bin has a larger score, or the same score and a larger N50
BestOfItsBin(i) ==
    /\ i \in QualifyingRows
    /\ \A j \in QualifyingRows :
          BaseBinName(stats_df[j].name) = BaseBinName(stats_df[i].name) =>
              \/ RowScore(j) < RowScore(i)
              \/ RowScore(j) = RowScore(i) /\ stats_df[j].n50 <= stats_df[i].n50

\* C28: choose_best_bin prints, for every base bin name with a qualifying
\* version, exactly one version, which has the maximal score among the
\* qualifying versions of the bin, ties on the score broken by the larger
\* N50; it prints nothing for a bin without a qualifying version.
C28_BestVersionPrinted ==
    bpc = "done" =>
        /\ \A i \in QualifyingRows :
              Cardinality({k \in 1..Len(printed) :
                              BaseBinName(printed[k])
                                  = BaseBinName(stats_df[i].name)}) = 1
        /\ \A k \in 1..Len(printed) :
              \E i \in 1..Len(stats_df) :
                  stats_df[i].name = printed[k] /\ BestOfItsBin(i)

\* two versions of a bin with the same score, the later one with the larger
\* N50, which was printed
C28_Witness ==
    /\ bpc = "done"
    /\ Len(stats_df) = 2
    /\ QualifyingRows = {1, 2}
    /\ BaseBinName(stats_df[1].name) = BaseBinName(stats_df[2].name)
    /\ stats_df[1].quality # stats_df[2].quality
    /\ RowScore(1) = RowScore(2)
    /\ stats_df[1].n50 < stats_df[2].n50
    /\ printed = <<stats_df[2].name>>

\* the commands that align reads or scaffold
AlignmentCommands == {"sort", "align", "yahs", "realign"}

\* C29: a run given --bam and neither --hic1 nor --hic2 never reaches a step
\* whose command is built with a Hi-C read file that is None, and a run
\* given neither --bam nor both Hi-C files exits with an error before any
\* alignment or YaHS step.
C29_HicOnlyWithoutBam ==
    /\ (has_bam /\ ~has_hic1 /\ ~has_hic2) => none_hic_steps = {}
    /\ (sstep > 0 /\ ~has_bam /\ ~(has_hic1 /\ has_hic2)) =>
          /\ sstep <= 3
          /\ \A i \in 1..Len(executed) : executed[i] \notin AlignmentCommands
          /\ sstep = 3 /\ exit_status # "running" => exit_status = "1"

\* a run with --bam alone has run the realignment of step 6 on the files
\* None and None
C29_RealignedWithoutReads ==
    /\ has_bam /\ ~has_hic1 /\ ~has_hic2
    /\ 6 \in none_hic_steps
    /\ executed[Len(executed)] = "realign"

\* C30: when one of the steps 1 to 11 fails, the run exits with status 1
\* without running a later step, and the message of success is logged only
\* when every step succeeded.
C30_StopsAtFirstFailure ==
    /\ failed_steps # {} =>
          /\ exit_status = "1"
          /\ \A k \in failed_steps : sstep = k
    /\ success_logged => failed_steps = {}

\* CheckM2 failed in step 11, and the run ended with the message of success
\* and status 0
C30_MetricsFailureSwallowed ==
    /\ failed_steps = {11}
    /\ success_logged
    /\ exit_status = "0"

=============================================================================
